---- MODULE Spec2Model ----
(***************************************************************************)
(* IBM Model 4 (nltk/translate/ibm4.py): the EM trainer, the scorer        *)
(* model4_prob_t_a_given_s, the distortion counts and their Maximization.  *)
(*                                                                         *)
(* Probabilities are fixed-point numbers: the integer v stands for         *)
(* v / Scale, so 1.0 is Scale.  Sums are exact; products and quotients     *)
(* round toward zero, the model's counterpart of floating-point rounding.  *)
(* Python's None is the string "None" where a word is expected and the     *)
(* integer -1 where a position or a word class is expected.                *)
(***************************************************************************)
EXTENDS Integers, Sequences, FiniteSets, TLC

\* ---------------------------------------------------------------- bounds
Scale == 10000
MaxIter == 2
MaxSamples == 2
MaxDj == 3

\* ------------------------------------------------------------- constants
\* IBMModel.MIN_PROB, the floor of every probability (in units of 1/Scale)
MIN_PROB == 10

None == -1
NoneWord == "None"
KeyError == -2

\* ------------------------------------------------- fixed-point arithmetic
FMul(a, b) == (a * b) \div Scale
FDiv(a, b) == (a * Scale) \div b
Max(a, b) == IF a >= b THEN a ELSE b

RECURSIVE FPow(_, _)
FPow(a, n) ==
    IF n = 0 THEN Scale
    ELSE IF n < 0 THEN FDiv(Scale, FPow(a, 0 - n))
    ELSE FMul(a, FPow(a, n - 1))

RECURSIVE factorial(_)
factorial(n) == IF n <= 1 THEN 1 ELSE n * factorial(n - 1)

RECURSIVE SumSeq(_)
SumSeq(s) == IF s = <<>> THEN 0 ELSE Head(s) + SumSeq(Tail(s))

\* ------------------------------------------------ defaultdict-like tables
\* A count table is a function on the keys that were assigned; an absent
\* key reads as 0 (defaultdict(float)) and "+=" creates it.
Add(f, k, c) == IF k \in DOMAIN f THEN [f EXCEPT ![k] = @ + c] ELSE f @@ (k :> c)
Put(f, k, v) == IF k \in DOMAIN f THEN [f EXCEPT ![k] = v] ELSE f @@ (k :> v)
EmptyFn == <<>>

\* A probability table: e maps the assigned full keys to their values, d
\* maps a first-level key whose inner defaultdict was replaced to that inner
\* dict's default; every other key reads as the outer default MIN_PROB.
EmptyTable == [e |-> EmptyFn, d |-> EmptyFn]
Lookup(T, k) ==
    IF k \in DOMAIN T.e THEN T.e[k]
    ELSE IF k[1] \in DOMAIN T.d THEN T.d[k[1]]
    ELSE MIN_PROB
Assign(T, k, v) == [T EXCEPT !.e = Put(T.e, k, v)]

\* ---------------------------------------------------------- AlignmentInfo
\* a.alignment[j] = i for j in 1..m (i = 0 is NULL), a.src the source words
\* 1..l, a.trg the target words 1..m.
TrgLen(a) == Len(a.trg)
SrcLen(a) == Len(a.src)
SrcWord(a, i) == IF i = 0 THEN NoneWord ELSE a.src[i]

\* cepts[i]: the target positions aligned to i, ascending
Cept(a, i) == SelectSeq([j \in 1..TrgLen(a) |-> j], LAMBDA j : a.alignment[j] = i)

fertility_of_i(a, i) == Len(Cept(a, i))

is_head_word(a, j) == Cept(a, a.alignment[j])[1] = j

center_of_cept(a, i) ==
    IF i = None THEN 0
    ELSE LET c == Cept(a, i)
         IN  (SumSeq(c) + Len(c) - 1) \div Len(c)

previous_cept(a, j) ==
    LET i == a.alignment[j]
        lower == {k \in 1..(i - 1) : fertility_of_i(a, k) > 0}
    IN  IF lower = {} THEN None
        ELSE CHOOSE k \in lower : \A k2 \in lower : k2 <= k

previous_in_tablet(a, j) ==
    LET c == Cept(a, a.alignment[j])
        pos == CHOOSE p \in 1..Len(c) : c[p] = j
    IN  IF pos = 1 THEN None ELSE c[pos - 1]

zero_indexed_alignment(a) ==
    {<<j - 1, IF a.alignment[j] - 1 < 0 THEN None ELSE a.alignment[j] - 1>> :
        j \in 1..TrgLen(a)}

\* ------------------------------------------------------------- the scorer
\* M is the ibm_model the scorer reads: the five probability tables it uses
\* and the two word-class maps (functions on the words that have a class).
\* p0 is kept from construction, when p1 was 1/2
null_generation_p0_Stale(M) == Scale - (Scale \div 2)

\* p0 = 1 - p1 (line 373)
null_generation_p0(M) == Scale - M.p1

\* the loop of the combination stops one factor short
null_generation_term_ShortLoop(a, M) ==
    LET p1 == M.p1
        p0 == null_generation_p0(M)
        null_fertility == fertility_of_i(a, 0)
        m == TrgLen(a)
        value == FMul(Scale, FMul(FPow(p1, null_fertility), FPow(p0, m - 2 * null_fertility)))
        comb[i \in 0..null_fertility] ==
            IF i = 0 THEN value
            ELSE FMul(comb[i - 1], FDiv(m - null_fertility - i + 1, i))
    IN  IF value < MIN_PROB THEN MIN_PROB
        ELSE IF null_fertility = 0 THEN value ELSE comb[null_fertility - 1]

null_generation_term(a, M) ==
    LET p1 == M.p1
        p0 == null_generation_p0(M)
        null_fertility == fertility_of_i(a, 0)
        m == TrgLen(a)
        value == FMul(Scale, FMul(FPow(p1, null_fertility), FPow(p0, m - 2 * null_fertility)))
        comb[i \in 0..null_fertility] ==
            IF i = 0 THEN value
            ELSE FMul(comb[i - 1], FDiv(m - null_fertility - i + 1, i))
    IN  IF value < MIN_PROB THEN MIN_PROB ELSE comb[null_fertility]

RECURSIVE fertility_loop(_, _, _, _)
fertility_loop(a, M, i, value) ==
    IF i > SrcLen(a) THEN value
    ELSE LET fertility == fertility_of_i(a, i)
             v == FMul(value, factorial(fertility) * Lookup(M.fertility_table, <<fertility, a.src[i]>>))
         IN  IF v < MIN_PROB THEN MIN_PROB ELSE fertility_loop(a, M, i + 1, v)

RECURSIVE fertility_loop_NoFactorial(_, _, _, _)
fertility_loop_NoFactorial(a, M, i, value) ==
    IF i > SrcLen(a) THEN value
    ELSE LET fertility == fertility_of_i(a, i)
             v == FMul(value, Lookup(M.fertility_table, <<fertility, a.src[i]>>))
         IN  IF v < MIN_PROB THEN MIN_PROB ELSE fertility_loop_NoFactorial(a, M, i + 1, v)

\* the factor of a source word is its fertility probability alone
fertility_term_NoFactorial(a, M) == fertility_loop_NoFactorial(a, M, 1, Scale)

fertility_term(a, M) == fertility_loop(a, M, 1, Scale)

lexical_translation_term(a, M, j) ==
    Lookup(M.translation_table, <<a.trg[j], SrcWord(a, a.alignment[j])>>)

\* The word-class lookups of distortion_term and update_distortion, in the
\* order the code makes them; a word without a class raises KeyError.
HeadSrcClass(a, j, src_classes) ==
    LET previous_cept_j == previous_cept(a, j)
    IN  IF previous_cept_j = None THEN None
        ELSE IF a.src[previous_cept_j] \in DOMAIN src_classes
             THEN src_classes[a.src[previous_cept_j]]
             ELSE KeyError

\* a target word without an entry is given class 0
TrgClass_Default(a, j, trg_classes) ==
    IF a.trg[j] \in DOMAIN trg_classes THEN trg_classes[a.trg[j]] ELSE 0

TrgClass(a, j, trg_classes) ==
    IF a.trg[j] \in DOMAIN trg_classes THEN trg_classes[a.trg[j]] ELSE KeyError

HeadDj(a, j) == j - center_of_cept(a, previous_cept(a, j))
\* the displacement is taken from the word to its predecessor
NonHeadDj_Backwards(a, j) == previous_in_tablet(a, j) - j

NonHeadDj(a, j) == j - previous_in_tablet(a, j)

\* the head lookup ignores the class of the previous cept's source word
distortion_term_NoSrcClass(a, M, j) ==
    IF a.alignment[j] = 0 THEN Scale
    ELSE IF is_head_word(a, j)
    THEN LET src_class == HeadSrcClass(a, j, M.src_classes)
             trg_class == TrgClass(a, j, M.trg_classes)
         IN  IF src_class = KeyError \/ trg_class = KeyError THEN KeyError
             ELSE Lookup(M.head_distortion_table, <<HeadDj(a, j), None, trg_class>>)
    ELSE LET trg_class == TrgClass(a, j, M.trg_classes)
         IN  IF trg_class = KeyError THEN KeyError
             ELSE Lookup(M.non_head_distortion_table, <<NonHeadDj(a, j), trg_class>>)

distortion_term(a, M, j) ==
    IF a.alignment[j] = 0 THEN Scale
    ELSE IF is_head_word(a, j)
    THEN LET src_class == HeadSrcClass(a, j, M.src_classes)
             trg_class == TrgClass(a, j, M.trg_classes)
         IN  IF src_class = KeyError \/ trg_class = KeyError THEN KeyError
             ELSE Lookup(M.head_distortion_table, <<HeadDj(a, j), src_class, trg_class>>)
    ELSE LET trg_class == TrgClass(a, j, M.trg_classes)
         IN  IF trg_class = KeyError THEN KeyError
             ELSE Lookup(M.non_head_distortion_table, <<NonHeadDj(a, j), trg_class>>)

\* The loop over the target positions: lexical factor, check, distortion
\* factor, check.  The result is a probability, or KeyError.
\* the check after the distortion factor is missing
RECURSIVE position_loop_NoDistortionCheck(_, _, _, _)
position_loop_NoDistortionCheck(a, M, j, probability) ==
    IF j > TrgLen(a) THEN probability
    ELSE LET p1 == FMul(probability, lexical_translation_term(a, M, j))
         IN  IF p1 < MIN_PROB THEN MIN_PROB
             ELSE LET d == distortion_term(a, M, j)
                  IN  IF d = KeyError THEN KeyError
                      ELSE position_loop_NoDistortionCheck(a, M, j + 1, FMul(p1, d))

RECURSIVE position_loop(_, _, _, _)
position_loop(a, M, j, probability) ==
    IF j > TrgLen(a) THEN probability
    ELSE LET p1 == FMul(probability, lexical_translation_term(a, M, j))
         IN  IF p1 < MIN_PROB THEN MIN_PROB
             ELSE LET d == distortion_term(a, M, j)
                  IN  IF d = KeyError THEN KeyError
                      ELSE LET p2 == FMul(p1, d)
                           IN  IF p2 < MIN_PROB THEN MIN_PROB
                               ELSE position_loop(a, M, j + 1, p2)

\* the product of all the factors, with no check against MIN_PROB
RECURSIVE position_loop_NoFloor(_, _, _, _)
position_loop_NoFloor(a, M, j, probability) ==
    IF j > TrgLen(a) THEN probability
    ELSE LET d == distortion_term(a, M, j)
         IN  IF d = KeyError THEN KeyError
             ELSE position_loop_NoFloor(
                      a, M, j + 1,
                      FMul(FMul(probability, lexical_translation_term(a, M, j)), d))

model4_prob_t_a_given_s_NoFloor(a, M) ==
    position_loop_NoFloor(
        a, M, 1, FMul(FMul(Scale, null_generation_term(a, M)), fertility_term(a, M)))

model4_prob_t_a_given_s(a, M) ==
    LET p1 == FMul(Scale, null_generation_term(a, M))
    IN  IF p1 < MIN_PROB THEN MIN_PROB
        ELSE LET p2 == FMul(p1, fertility_term(a, M))
             IN  IF p2 < MIN_PROB THEN MIN_PROB
                 ELSE position_loop(a, M, 1, p2)

prob_t_a_given_s(a, M) == model4_prob_t_a_given_s(a, M)

\* ------------------------------------------------------------ Model4Counts
\* raised records that an update raised KeyError: the exception leaves the
\* pass, so every later update of the pass is skipped.
Model4Counts ==
    [t_given_s |-> EmptyFn, any_t_given_s |-> EmptyFn,
     null_count |-> 0, word_count |-> 0,
     fertility |-> EmptyFn, fertility_for_any_phi |-> EmptyFn,
     head_distortion |-> EmptyFn, head_distortion_for_any_dj |-> EmptyFn,
     non_head_distortion |-> EmptyFn, non_head_distortion_for_any_dj |-> EmptyFn,
     raised |-> FALSE]

update_lexical_translation(counts, count, a, j) ==
    LET t == a.trg[j]
        s == SrcWord(a, a.alignment[j])
    IN  IF counts.raised THEN counts
        ELSE [counts EXCEPT !.t_given_s = Add(@, <<t, s>>, count),
                            !.any_t_given_s = Add(@, <<s>>, count)]

\* a non-head word is counted under its dj alone, not in the total of its
\* class
update_distortion_NoNonHeadTotal(counts, count, a, j, src_classes, trg_classes) ==
    IF counts.raised \/ a.alignment[j] = 0 THEN counts
    ELSE IF is_head_word(a, j)
    THEN LET src_class == HeadSrcClass(a, j, src_classes)
             trg_class == TrgClass(a, j, trg_classes)
             dj == HeadDj(a, j)
         IN  IF src_class = KeyError \/ trg_class = KeyError
             THEN [counts EXCEPT !.raised = TRUE]
             ELSE [counts EXCEPT
                     !.head_distortion = Add(@, <<dj, src_class, trg_class>>, count),
                     !.head_distortion_for_any_dj = Add(@, <<src_class, trg_class>>, count)]
    ELSE LET trg_class == TrgClass(a, j, trg_classes)
             dj == NonHeadDj(a, j)
         IN  IF trg_class = KeyError
             THEN [counts EXCEPT !.raised = TRUE]
             ELSE [counts EXCEPT
                     !.non_head_distortion = Add(@, <<dj, trg_class>>, count),
                     !.non_head_distortion_for_any_dj =
                         IF <<trg_class>> \in DOMAIN @ THEN @
                         ELSE Add(@, <<trg_class>>, count)]

\* a head word is also counted in the non-head total of its class
update_distortion_BothFamilies(counts, count, a, j, src_classes, trg_classes) ==
    IF counts.raised \/ a.alignment[j] = 0 THEN counts
    ELSE IF is_head_word(a, j)
    THEN LET src_class == HeadSrcClass(a, j, src_classes)
             trg_class == TrgClass(a, j, trg_classes)
             dj == HeadDj(a, j)
         IN  IF src_class = KeyError \/ trg_class = KeyError
             THEN [counts EXCEPT !.raised = TRUE]
             ELSE [counts EXCEPT
                     !.head_distortion = Add(@, <<dj, src_class, trg_class>>, count),
                     !.head_distortion_for_any_dj = Add(@, <<src_class, trg_class>>, count),
                     !.non_head_distortion_for_any_dj = Add(@, <<trg_class>>, count)]
    ELSE LET trg_class == TrgClass(a, j, trg_classes)
             dj == NonHeadDj(a, j)
         IN  IF trg_class = KeyError
             THEN [counts EXCEPT !.raised = TRUE]
             ELSE [counts EXCEPT
                     !.non_head_distortion = Add(@, <<dj, trg_class>>, count),
                     !.non_head_distortion_for_any_dj = Add(@, <<trg_class>>, count)]

\* the count of a key is overwritten instead of added to
update_distortion_Overwrite(counts, count, a, j, src_classes, trg_classes) ==
    IF counts.raised \/ a.alignment[j] = 0 THEN counts
    ELSE IF is_head_word(a, j)
    THEN LET src_class == HeadSrcClass(a, j, src_classes)
             trg_class == TrgClass(a, j, trg_classes)
             dj == HeadDj(a, j)
         IN  IF src_class = KeyError \/ trg_class = KeyError
             THEN [counts EXCEPT !.raised = TRUE]
             ELSE [counts EXCEPT
                     !.head_distortion = Put(@, <<dj, src_class, trg_class>>, count),
                     !.head_distortion_for_any_dj = Put(@, <<src_class, trg_class>>, count)]
    ELSE LET trg_class == TrgClass(a, j, trg_classes)
             dj == NonHeadDj(a, j)
         IN  IF trg_class = KeyError
             THEN [counts EXCEPT !.raised = TRUE]
             ELSE [counts EXCEPT
                     !.non_head_distortion = Put(@, <<dj, trg_class>>, count),
                     !.non_head_distortion_for_any_dj = Put(@, <<trg_class>>, count)]

update_distortion(counts, count, a, j, src_classes, trg_classes) ==
    IF counts.raised \/ a.alignment[j] = 0 THEN counts
    ELSE IF is_head_word(a, j)
    THEN LET src_class == HeadSrcClass(a, j, src_classes)
             trg_class == TrgClass(a, j, trg_classes)
             dj == HeadDj(a, j)
         IN  IF src_class = KeyError \/ trg_class = KeyError
             THEN [counts EXCEPT !.raised = TRUE]
             ELSE [counts EXCEPT
                     !.head_distortion = Add(@, <<dj, src_class, trg_class>>, count),
                     !.head_distortion_for_any_dj = Add(@, <<src_class, trg_class>>, count)]
    ELSE LET trg_class == TrgClass(a, j, trg_classes)
             dj == NonHeadDj(a, j)
         IN  IF trg_class = KeyError
             THEN [counts EXCEPT !.raised = TRUE]
             ELSE [counts EXCEPT
                     !.non_head_distortion = Add(@, <<dj, trg_class>>, count),
                     !.non_head_distortion_for_any_dj = Add(@, <<trg_class>>, count)]

update_null_generation(counts, count, a) ==
    IF counts.raised THEN counts
    ELSE [counts EXCEPT !.null_count = @ + fertility_of_i(a, 0) * count,
                        !.word_count = @ + TrgLen(a) * count]

RECURSIVE update_fertility_loop(_, _, _, _)
update_fertility_loop(counts, count, a, i) ==
    IF i > SrcLen(a) THEN counts
    ELSE LET s == SrcWord(a, i)
             phi == fertility_of_i(a, i)
         IN  update_fertility_loop(
                 [counts EXCEPT !.fertility = Add(@, <<phi, s>>, count),
                                !.fertility_for_any_phi = Add(@, <<s>>, count)],
                 count, a, i + 1)

update_fertility(counts, count, a) ==
    IF counts.raised THEN counts ELSE update_fertility_loop(counts, count, a, 0)

\* ------------------------------------------------------------ Maximization
\* for every key of num: T[key] = max(num[key] / den_of[key], MIN_PROB), where
\* den_of[key] is the denominator count of the key's context
RECURSIVE MaximizeKeys(_, _, _, _)
MaximizeKeys(T, keys, num, den_of) ==
    IF keys = {} THEN T
    ELSE LET k == CHOOSE x \in keys : TRUE
             estimate == FDiv(num[k], den_of[k])
         IN  MaximizeKeys(Assign(T, k, Max(estimate, MIN_PROB)), keys \ {k}, num, den_of)

RECURSIVE MaximizeKeys_NoClamp(_, _, _, _)
MaximizeKeys_NoClamp(T, keys, num, den_of) ==
    IF keys = {} THEN T
    ELSE LET k == CHOOSE x \in keys : TRUE
         IN  MaximizeKeys_NoClamp(Assign(T, k, FDiv(num[k], den_of[k])), keys \ {k}, num, den_of)

\* the estimate is stored without the clamp to MIN_PROB
maximize_head_distortion_NoClamp(head_d_table, counts) ==
    MaximizeKeys_NoClamp(head_d_table, DOMAIN counts.head_distortion, counts.head_distortion,
                 [k \in DOMAIN counts.head_distortion |->
                     counts.head_distortion_for_any_dj[<<k[2], k[3]>>]])

RECURSIVE SumOf(_, _)
SumOf(f, keys) ==
    IF keys = {} THEN 0
    ELSE LET k == CHOOSE x \in keys : TRUE IN f[k] + SumOf(f, keys \ {k})

\* every head count is divided by the total of all head counts, whatever
\* its classes
maximize_head_distortion_AnyContext(head_d_table, counts) ==
    MaximizeKeys(head_d_table, DOMAIN counts.head_distortion, counts.head_distortion,
                 [k \in DOMAIN counts.head_distortion |->
                     SumOf(counts.head_distortion_for_any_dj,
                           DOMAIN counts.head_distortion_for_any_dj)])

maximize_head_distortion(head_d_table, counts) ==
    MaximizeKeys(head_d_table, DOMAIN counts.head_distortion, counts.head_distortion,
                 [k \in DOMAIN counts.head_distortion |->
                     counts.head_distortion_for_any_dj[<<k[2], k[3]>>]])

maximize_non_head_distortion(non_head_d_table, counts) ==
    MaximizeKeys(non_head_d_table, DOMAIN counts.non_head_distortion,
                 counts.non_head_distortion,
                 [k \in DOMAIN counts.non_head_distortion |->
                     counts.non_head_distortion_for_any_dj[<<k[2]>>]])

RECURSIVE MaximizeKeys_Blend(_, _, _, _)
MaximizeKeys_Blend(T, keys, num, den_of) ==
    IF keys = {} THEN T
    ELSE LET k == CHOOSE x \in keys : TRUE
             estimate == (Lookup(T, k) + FDiv(num[k], den_of[k])) \div 2
         IN  MaximizeKeys_Blend(Assign(T, k, Max(estimate, MIN_PROB)), keys \ {k}, num, den_of)

\* the new estimate is averaged with the value the table holds
maximize_distortion_probabilities_Blend(self, counts) ==
    [self EXCEPT
       !.head_distortion_table =
          MaximizeKeys_Blend(@, DOMAIN counts.head_distortion, counts.head_distortion,
              [k \in DOMAIN counts.head_distortion |->
                  counts.head_distortion_for_any_dj[<<k[2], k[3]>>]]),
       !.non_head_distortion_table =
          MaximizeKeys_Blend(@, DOMAIN counts.non_head_distortion, counts.non_head_distortion,
              [k \in DOMAIN counts.non_head_distortion |->
                  counts.non_head_distortion_for_any_dj[<<k[2]>>]])]

\* self is the record of the six tables
maximize_distortion_probabilities(self, counts) ==
    [self EXCEPT
       !.head_distortion_table = maximize_head_distortion(@, counts),
       !.non_head_distortion_table = maximize_non_head_distortion(@, counts)]

maximize_lexical_translation_probabilities(self, counts) ==
    [self EXCEPT !.translation_table =
        MaximizeKeys(@, DOMAIN counts.t_given_s, counts.t_given_s,
                     [k \in DOMAIN counts.t_given_s |-> counts.any_t_given_s[<<k[2]>>]])]

maximize_fertility_probabilities(self, counts) ==
    [self EXCEPT !.fertility_table =
        MaximizeKeys(@, DOMAIN counts.fertility, counts.fertility,
                     [k \in DOMAIN counts.fertility |-> counts.fertility_for_any_phi[<<k[2]>>]])]

maximize_null_generation_probabilities(self, counts) ==
    [self EXCEPT !.p1 = Max(FDiv(counts.null_count, counts.word_count), MIN_PROB)]

\* only the tables of the base class are reset
reset_probabilities_BaseOnly(self) ==
    [translation_table |-> EmptyTable,
     alignment_table |-> EmptyTable,
     fertility_table |-> EmptyTable,
     p1 |-> Scale \div 2,
     head_distortion_table |->
        IF self = EmptyFn THEN EmptyTable ELSE self.head_distortion_table,
     non_head_distortion_table |->
        IF self = EmptyFn THEN EmptyTable ELSE self.non_head_distortion_table]

\* IBMModel.reset_probabilities followed by IBMModel4's own two tables
reset_probabilities(self) ==
    [translation_table |-> EmptyTable,
     alignment_table |-> EmptyTable,
     fertility_table |-> EmptyTable,
     p1 |-> Scale \div 2,
     head_distortion_table |-> EmptyTable,
     non_head_distortion_table |-> EmptyTable]

\* the alignment table is not put back after the reset
m_step_Retrain(self, counts) ==
    maximize_null_generation_probabilities(
      maximize_fertility_probabilities(
        maximize_distortion_probabilities(
          maximize_lexical_translation_probabilities(reset_probabilities(self), counts),
          counts), counts), counts)

\* the tables are not reset: the estimates are written over the tables of
\* the pass
m_step_NoReset(self, counts) ==
    maximize_null_generation_probabilities(
      maximize_fertility_probabilities(
        maximize_distortion_probabilities(
          maximize_lexical_translation_probabilities(self, counts), counts), counts), counts)

\* the M step of train (lines 326-335)
m_step(self, counts) ==
    LET existing_alignment_table == self.alignment_table
        cleared == [reset_probabilities(self) EXCEPT
                      !.alignment_table = existing_alignment_table]
    IN  maximize_null_generation_probabilities(
          maximize_fertility_probabilities(
            maximize_distortion_probabilities(
              maximize_lexical_translation_probabilities(cleared, counts), counts), counts), counts)

\* ------------------------------------------------------------------ inputs
TableNames ==
    <<"translation_table", "alignment_table", "fertility_table", "p1",
      "head_distortion_table", "non_head_distortion_table">>

SrcVocab == {"a", "b"}
TrgVocab == {"x", "y"}

AlignedSent(words, mots) == [words |-> words, mots |-> mots, alignment |-> {}]

\* maxM = 2: a two-word pair and a one-word pair
CorpusLong == <<AlignedSent(<<"x", "y">>, <<"a", "b">>), AlignedSent(<<"y">>, <<"a">>)>>
\* maxM = 1
CorpusShort == <<AlignedSent(<<"x">>, <<"a">>)>>
Corpora == {CorpusLong, CorpusShort}

FullSrcClasses == [w \in SrcVocab |-> IF w = "a" THEN 0 ELSE 1]
FullTrgClasses == [w \in TrgVocab |-> IF w = "x" THEN 0 ELSE 1]
Restrict(f, S) == [w \in S |-> f[w]]
ClassIds == {None, 0, 1}

Constant(keys, v) == [e |-> [k \in keys |-> v], d |-> EmptyFn]

\* What the seeding model hands over: translation, alignment and fertility
\* tables and p1 (the distortion tables are then set uniformly).
Model3Output ==
    [translation_table |-> Constant(TrgVocab \X (SrcVocab \cup {NoneWord}), Scale \div 2),
     alignment_table |-> Constant({<<1, 1, 2, 2>>, <<0, 1, 2, 2>>}, Scale \div 4),
     fertility_table |-> Constant((0..2) \X SrcVocab, Scale \div 2),
     p1 |-> Scale \div 4]

\* User-defined tables that give the monotone alignment probability 1 and
\* leave every other entry to the floor.
ExplicitSharp ==
    [translation_table |-> Constant({<<"x", "a">>, <<"y", "b">>, <<"y", "a">>}, Scale),
     alignment_table |-> Constant({<<1, 1, 2, 2>>}, Scale),
     fertility_table |-> Constant({<<1, "a">>, <<1, "b">>, <<0, "b">>}, Scale),
     p1 |-> MIN_PROB,
     head_distortion_table |-> Constant({<<1, None, 0>>, <<1, 0, 1>>, <<1, None, 1>>}, Scale),
     non_head_distortion_table |-> Constant({<<1, 1>>}, Scale \div 2)]

Without(r, name) == [k \in (DOMAIN r) \ {name} |-> r[k]]

\* probability_tables: "None" or a dict with some of the six entries
ProbabilityTableChoices ==
    {[given |-> FALSE, dict |-> EmptyFn], [given |-> TRUE, dict |-> ExplicitSharp]}
    \cup {[given |-> TRUE, dict |-> Without(ExplicitSharp, TableNames[q])] : q \in 1..6}

ClassMapChoices ==
    {<<FullSrcClasses, FullTrgClasses>>,
     <<Restrict(FullSrcClasses, {"b"}), FullTrgClasses>>,
     <<Restrict(FullSrcClasses, {"a"}), FullTrgClasses>>,
     <<FullSrcClasses, Restrict(FullTrgClasses, {"y"})>>}

\* ------------------------------------------------------------------- state
VARIABLES
    pc,                 \* "new", "estep", "mstep", "done", "error"
    corpus,             \* the sentence pairs with their recorded alignments
    iterations,         \* the constructor's argument
    src_classes,        \* self.src_classes
    trg_classes,        \* self.trg_classes
    probability_tables, \* the constructor's argument
    self,               \* the six tables of the model
    counts,             \* the Model4Counts of the current (or last) pass
    n,                  \* completed training passes
    k,                  \* the sentence the pass works on next
    err,                \* the exception that ended construction, or "none"
    seeded,             \* tables and alignments when seeding finished
    ibm3_invoked,       \* whether IBMModel3 was constructed
    sampled,            \* per sentence, the best alignment sample() last returned
    scorer,             \* the frame of a call of prob_t_a_given_s, or NoCall
    distance            \* the frame of a call of levenshtein_distance, or NoCall

vars == <<pc, corpus, iterations, src_classes, trg_classes, probability_tables,
          self, counts, n, k, err, seeded, ibm3_invoked, sampled, scorer, distance>>

\* no call from outside training is in progress
NoCall == [at |-> "idle"]

\* ------------------------------------------------------------ construction
RECURSIVE longest_target_sentence_length(_)
longest_target_sentence_length(sentence_aligned_corpus) ==
    IF sentence_aligned_corpus = <<>> THEN 0
    ELSE Max(Len(Head(sentence_aligned_corpus).words),
             longest_target_sentence_length(Tail(sentence_aligned_corpus)))

\* assigning table[dj] = defaultdict(... initial_prob) drops what the inner
\* dict held and makes initial_prob the default below dj
ReplaceInner(T, djs, initial_prob) ==
    [e |-> [key \in {x \in DOMAIN T.e : x[1] \notin djs} |-> T.e[key]],
     d |-> [dj \in (DOMAIN T.d) \cup djs |-> IF dj \in djs THEN initial_prob ELSE T.d[dj]]]

\* the displacement range runs to max_m instead of max_m - 1
set_uniform_probabilities_UpToMaxM(tables, sentence_aligned_corpus) ==
    LET max_m == longest_target_sentence_length(sentence_aligned_corpus)
        initial_prob == IF max_m <= 1 THEN MIN_PROB ELSE FDiv(1, 2 * (max_m - 1))
        djs == {dj \in (0 - max_m)..max_m : dj # 0}
    IN  [tables EXCEPT
           !.head_distortion_table = ReplaceInner(@, djs, initial_prob),
           !.non_head_distortion_table = ReplaceInner(@, djs, initial_prob)]

set_uniform_probabilities(tables, sentence_aligned_corpus) ==
    LET max_m == longest_target_sentence_length(sentence_aligned_corpus)
        initial_prob == IF max_m <= 1 THEN MIN_PROB ELSE FDiv(1, 2 * (max_m - 1))
        djs == {dj \in (1 - max_m)..(max_m - 1) : dj # 0}
    IN  [tables EXCEPT
           !.head_distortion_table = ReplaceInner(@, djs, initial_prob),
           !.non_head_distortion_table = ReplaceInner(@, djs, initial_prob)]

\* a missing entry is skipped and its table stays as reset
RECURSIVE take_user_tables_Lenient(_, _, _)
take_user_tables_Lenient(tables, dict, q) ==
    IF q > Len(TableNames) THEN [tables |-> tables, raised |-> FALSE]
    ELSE IF TableNames[q] \notin DOMAIN dict THEN take_user_tables_Lenient(tables, dict, q + 1)
    ELSE take_user_tables_Lenient([tables EXCEPT ![TableNames[q]] = dict[TableNames[q]]],
                                  dict, q + 1)

\* lines 225-232: the six entries are read in this order; the first missing
\* one raises KeyError and leaves the later tables as reset
RECURSIVE take_user_tables(_, _, _)
take_user_tables(tables, dict, q) ==
    IF q > Len(TableNames) THEN [tables |-> tables, raised |-> FALSE]
    ELSE IF TableNames[q] \notin DOMAIN dict THEN [tables |-> tables, raised |-> TRUE]
    ELSE take_user_tables([tables EXCEPT ![TableNames[q]] = dict[TableNames[q]]], dict, q + 1)

NoAlignment == [alignment |-> <<>>, src |-> <<>>, trg |-> <<>>]
Recorded(c) == [i \in 1..Len(c) |-> c[i].alignment]
Snapshot(tables, c) == [tables |-> tables, alignments |-> Recorded(c)]

Init ==
    /\ pc = "new"
    /\ corpus \in Corpora
    /\ iterations \in 0..MaxIter
    /\ \E cm \in ClassMapChoices : src_classes = cm[1] /\ trg_classes = cm[2]
    /\ probability_tables \in ProbabilityTableChoices
    /\ self = reset_probabilities(EmptyFn)
    /\ counts = Model4Counts
    /\ n = 0
    /\ k = 1
    /\ err = "none"
    /\ seeded = Snapshot(self, corpus)
    /\ ibm3_invoked = FALSE
    /\ sampled = [i \in 1..Len(corpus) |-> NoAlignment]
    /\ scorer = NoCall
    /\ distance = NoCall

\* the loop body runs once before the count is tested
Start_AtLeastOnce == "estep"

\* for n in range(0, iterations): where construction goes after seeding
Start == IF iterations = 0 THEN "done" ELSE "estep"

\* __init__ with probability_tables = None (lines 210-222)
ConstructSeeded ==
    /\ pc = "new"
    /\ ~probability_tables.given
    /\ LET ibm3 == Model3Output
           taken == [reset_probabilities(self) EXCEPT
                       !.translation_table = ibm3.translation_table,
                       !.alignment_table = ibm3.alignment_table,
                       !.fertility_table = ibm3.fertility_table,
                       !.p1 = ibm3.p1]
       IN  self' = set_uniform_probabilities(taken, corpus)
    /\ ibm3_invoked' = TRUE
    /\ seeded' = Snapshot(self', corpus)
    /\ pc' = Start
    /\ UNCHANGED <<corpus, iterations, src_classes, trg_classes, probability_tables,
                   counts, n, k, err, sampled, scorer, distance>>

\* __init__ with user-defined probability_tables (lines 210-214, 223-232)
ConstructExplicit ==
    /\ pc = "new"
    /\ probability_tables.given
    /\ LET taken == take_user_tables(reset_probabilities(self), probability_tables.dict, 1)
       IN  /\ self' = taken.tables
           /\ pc' = IF taken.raised THEN "error" ELSE Start
           /\ err' = IF taken.raised THEN "KeyError: probability_tables" ELSE "none"
    /\ seeded' = Snapshot(self', corpus)
    /\ UNCHANGED <<corpus, iterations, src_classes, trg_classes, probability_tables,
                   counts, n, k, ibm3_invoked, sampled, scorer, distance>>

\* ---------------------------------------------------------------- training
\* The sampler: some non-empty set of alignments of the sentence pair, none
\* giving NULL more than half of the target words, and the best of them.
AlignmentInfos(sent) ==
    {a \in [alignment : [1..Len(sent.words) -> 0..Len(sent.mots)],
            src : {sent.mots}, trg : {sent.words}] :
        2 * fertility_of_i(a, 0) <= Len(sent.words)}

SampleSets(sent) ==
    {S \in SUBSET AlignmentInfos(sent) : Cardinality(S) >= 1 /\ Cardinality(S) <= MaxSamples}

ibm_model == [translation_table |-> self.translation_table,
              fertility_table |-> self.fertility_table,
              p1 |-> self.p1,
              head_distortion_table |-> self.head_distortion_table,
              non_head_distortion_table |-> self.non_head_distortion_table,
              src_classes |-> src_classes,
              trg_classes |-> trg_classes]

RECURSIVE prob_of_alignments(_, _)
prob_of_alignments(alignments, M) ==
    IF alignments = {} THEN 0
    ELSE LET a == CHOOSE x \in alignments : TRUE
         IN  prob_t_a_given_s(a, M) + prob_of_alignments(alignments \ {a}, M)

\* lines 311-321: the loop over the target positions of one candidate
RECURSIVE collect_positions(_, _, _, _, _, _)
collect_positions(c, normalized_count, a, j, src_cls, trg_cls) ==
    IF j > TrgLen(a) THEN c
    ELSE collect_positions(
             update_distortion(update_lexical_translation(c, normalized_count, a, j),
                               normalized_count, a, j, src_cls, trg_cls),
             normalized_count, a, j + 1, src_cls, trg_cls)

\* the raw score of a candidate is fed to the count updates, without the
\* division by total_count
RECURSIVE collect_counts_Unnormalized(_, _, _, _)
collect_counts_Unnormalized(c, alignments, total_count, M) ==
    IF alignments = {} THEN c
    ELSE LET a == CHOOSE x \in alignments : TRUE
             count == prob_t_a_given_s(a, M)
             c1 == collect_positions(c, count, a, 1, M.src_classes, M.trg_classes)
             c2 == update_fertility(update_null_generation(c1, count, a), count, a)
         IN  IF c2.raised THEN c2
             ELSE collect_counts_Unnormalized(c2, alignments \ {a}, total_count, M)

\* lines 307-324: the loop over the sampled alignments of one sentence pair
RECURSIVE collect_counts(_, _, _, _)
collect_counts(c, alignments, total_count, M) ==
    IF alignments = {} THEN c
    ELSE LET a == CHOOSE x \in alignments : TRUE
             count == prob_t_a_given_s(a, M)
             normalized_count == FDiv(count, total_count)
             c1 == collect_positions(c, normalized_count, a, 1, M.src_classes, M.trg_classes)
             c2 == update_fertility(update_null_generation(c1, normalized_count, a),
                                    normalized_count, a)
         IN  IF c2.raised THEN c2 ELSE collect_counts(c2, alignments \ {a}, total_count, M)

\* the alignment is recorded once, for the last sentence pair of the corpus
Record_LastOnly(c, i, best_alignment) ==
    IF i = Len(c) THEN [c EXCEPT ![i].alignment = zero_indexed_alignment(best_alignment)]
    ELSE c

Record(c, i, best_alignment) ==
    [c EXCEPT ![i].alignment = zero_indexed_alignment(best_alignment)]

\* the counts of earlier passes are kept: a new Model4Counts is made only
\* for the first pass
pass_counts_Kept == IF k = 1 /\ n = 0 THEN Model4Counts ELSE counts

\* counts = Model4Counts() at the start of train (line 292): the counts the
\* loop adds to when it reaches sentence pair k
pass_counts == IF k = 1 THEN Model4Counts ELSE counts

\* the tables are re-estimated after every sentence pair, from the counts so
\* far
TrainSentence_Online ==
    /\ pc = "estep"
    /\ \E S \in SampleSets(corpus[k]) :
         IF \E a \in S : prob_t_a_given_s(a, ibm_model) = KeyError
         THEN /\ pc' = "error"
              /\ err' = "KeyError: word class"
              /\ counts' = pass_counts
              /\ UNCHANGED <<corpus, k, sampled, self>>
         ELSE \E best_alignment \in S :
              /\ \A a \in S : prob_t_a_given_s(a, ibm_model)
                                <= prob_t_a_given_s(best_alignment, ibm_model)
              /\ corpus' = Record(corpus, k, best_alignment)
              /\ sampled' = [sampled EXCEPT ![k] = best_alignment]
              /\ LET total_count == prob_of_alignments(S, ibm_model)
                     c == collect_counts(pass_counts, S, total_count, ibm_model)
                 IN  /\ counts' = c
                     /\ self' = IF c.raised THEN self ELSE m_step(self, c)
                     /\ pc' = IF c.raised THEN "error"
                              ELSE IF k = Len(corpus) THEN "mstep" ELSE "estep"
                     /\ err' = IF c.raised THEN "KeyError: word class" ELSE "none"
                     /\ k' = IF c.raised \/ k = Len(corpus) THEN k ELSE k + 1
    /\ UNCHANGED <<iterations, src_classes, trg_classes, probability_tables,
                   n, seeded, ibm3_invoked, scorer, distance>>

\* one turn of the loop of train (lines 293-324) for sentence pair k
TrainSentence ==
    /\ pc = "estep"
    /\ \E S \in SampleSets(corpus[k]) :
         IF \E a \in S : prob_t_a_given_s(a, ibm_model) = KeyError
         THEN \* the sampler's scoring raised: nothing was recorded
              /\ pc' = "error"
              /\ err' = "KeyError: word class"
              /\ counts' = pass_counts
              /\ UNCHANGED <<corpus, k, sampled>>
         ELSE \E best_alignment \in S :
              /\ \A a \in S : prob_t_a_given_s(a, ibm_model)
                                <= prob_t_a_given_s(best_alignment, ibm_model)
              /\ corpus' = Record(corpus, k, best_alignment)
              /\ sampled' = [sampled EXCEPT ![k] = best_alignment]
              /\ LET total_count == prob_of_alignments(S, ibm_model)
                     c == collect_counts(pass_counts, S, total_count, ibm_model)
                 IN  /\ counts' = c
                     /\ pc' = IF c.raised THEN "error"
                              ELSE IF k = Len(corpus) THEN "mstep" ELSE "estep"
                     /\ err' = IF c.raised THEN "KeyError: word class" ELSE "none"
                     /\ k' = IF c.raised \/ k = Len(corpus) THEN k ELSE k + 1
    /\ UNCHANGED <<iterations, src_classes, trg_classes, probability_tables,
                   self, n, seeded, ibm3_invoked, scorer, distance>>

\* the M step of train (lines 326-335) and the loop of __init__ (234-235)
MStep ==
    /\ pc = "mstep"
    /\ self' = m_step(self, counts)
    /\ n' = n + 1
    /\ k' = 1
    /\ pc' = IF n + 1 = iterations THEN "done" ELSE "estep"
    /\ UNCHANGED <<corpus, iterations, src_classes, trg_classes, probability_tables,
                   counts, err, seeded, ibm3_invoked, sampled, scorer, distance>>

Next == ConstructSeeded \/ ConstructExplicit \/ TrainSentence \/ MStep

Spec == Init /\ [][Next]_vars

\* ------------------------------------------------------------- properties
DjRange == (0 - MaxDj)..MaxDj
Trained == n >= 1
Sentences == 1..Len(corpus)

\* C1: after every completed training pass every head and non-head distortion
\* entry, written by Maximization or read through the default, is >= MIN_PROB
C1_DistortionAboveFloor ==
    Trained =>
        \A dj \in DjRange, s \in ClassIds, t \in ClassIds :
            /\ Lookup(self.head_distortion_table, <<dj, s, t>>) >= MIN_PROB
            /\ Lookup(self.non_head_distortion_table, <<dj, t>>) >= MIN_PROB

\* a pass has written a head entry whose estimate lay below the floor, and a
\* head entry whose context is a real source class
C1_Witness ==
    /\ Trained
    /\ \E key \in DOMAIN counts.head_distortion :
         /\ FDiv(counts.head_distortion[key],
                 counts.head_distortion_for_any_dj[<<key[2], key[3]>>]) < MIN_PROB
         /\ Lookup(self.head_distortion_table, key) = MIN_PROB
    /\ \E key \in DOMAIN self.head_distortion_table.e : key[2] # None

\* ---- C2
AllAlignmentInfos(sent) ==
    [alignment : [1..Len(sent.words) -> 0..Len(sent.mots)],
     src : {sent.mots}, trg : {sent.words}]

\* every class the scorer or the counter could look up for a exists
Classed(a) ==
    /\ \A j \in 1..TrgLen(a) : a.trg[j] \in DOMAIN trg_classes
    /\ \A i \in 1..SrcLen(a) : a.src[i] \in DOMAIN src_classes

\* the factors in the order the scorer multiplies them: the null-generation
\* term, the fertility term, then per position the lexical and the
\* distortion factor
Factors(a, M) ==
    <<null_generation_term(a, M), fertility_term(a, M)>> \o
    [q \in 1..(2 * TrgLen(a)) |->
        IF q % 2 = 1 THEN lexical_translation_term(a, M, (q + 1) \div 2)
        ELSE distortion_term(a, M, q \div 2)]

\* the running product after each factor, with no early return
RECURSIVE Running(_, _)
Running(fs, q) == IF q = 0 THEN Scale ELSE FMul(Running(fs, q - 1), fs[q])

\* the checks at which the running product is below MIN_PROB, counting only
\* checks the scorer reaches (none before it was below)
FirstBelow(fs) ==
    {q \in 1..Len(fs) : /\ Running(fs, q) < MIN_PROB
                        /\ \A r \in 1..(q - 1) : Running(fs, r) >= MIN_PROB}

\* C2: prob_t_a_given_s is >= MIN_PROB for every alignment and every table
\* state, and is exactly MIN_PROB when the running product is below MIN_PROB
\* at one of its checks
C2_ScoreAboveFloor ==
    pc # "new" =>
        \A i \in Sentences : \A a \in AllAlignmentInfos(corpus[i]) :
            Classed(a) =>
                LET fs == Factors(a, ibm_model)
                    r == prob_t_a_given_s(a, ibm_model)
                IN  /\ r >= MIN_PROB
                    /\ FirstBelow(fs) # {} => r = MIN_PROB
                    /\ FirstBelow(fs) = {} => r = Running(fs, Len(fs))

\* after a pass, one alignment falls below the floor at a distortion check
\* that is not the last check, another at a lexical check, another scores
\* above the floor
C2_Witness ==
    /\ Trained
    /\ \E i \in Sentences : \E a, b, c \in AllAlignmentInfos(corpus[i]) :
         /\ Classed(a)
         /\ \E q \in FirstBelow(Factors(a, ibm_model)) :
               q > 2 /\ q % 2 = 0 /\ q < 2 + 2 * TrgLen(a)
         /\ \E q \in FirstBelow(Factors(b, ibm_model)) : q > 2 /\ q % 2 = 1
         /\ prob_t_a_given_s(a, ibm_model) = MIN_PROB
         /\ prob_t_a_given_s(c, ibm_model) > MIN_PROB

\* C3: construction with iterations = N runs exactly N passes; with N = 0
\* the six tables are the seeded ones and no recorded alignment is modified
C3_ExactlyNPasses ==
    /\ n <= iterations
    /\ pc = "done" =>
         /\ n = iterations
         /\ iterations = 0 => /\ self = seeded.tables
                              /\ Recorded(corpus) = seeded.alignments
                              /\ \A i \in Sentences : sampled[i] = NoAlignment

\* construction with zero iterations finished on the two-pair corpus, seeded
\* by Model 3
C3_Witness ==
    /\ pc = "done"
    /\ iterations = 0
    /\ ibm3_invoked
    /\ Len(corpus) = 2
    /\ self.head_distortion_table.d # EmptyFn

\* C4: the alignment table is frozen: after any number of passes it is the
\* table taken from the seeding model or from probability_tables
C4_AlignmentTableFrozen ==
    pc \in {"estep", "mstep", "done"} =>
        self.alignment_table = seeded.tables.alignment_table

\* two passes have re-estimated the other tables and the alignment table is
\* still the non-empty seeded one
C4_Witness ==
    /\ n = 2
    /\ self.alignment_table # EmptyTable
    /\ self.alignment_table = seeded.tables.alignment_table
    /\ self.translation_table # seeded.tables.translation_table
    /\ self.fertility_table # seeded.tables.fertility_table
    /\ self.head_distortion_table # seeded.tables.head_distortion_table

\* ---- C5
TranslationKeys == TrgVocab \X (SrcVocab \cup {NoneWord})
FertilityKeys == (0..MaxDj) \X (SrcVocab \cup {NoneWord})
HeadKeys == DjRange \X ClassIds \X ClassIds
NonHeadKeys == DjRange \X ClassIds
Unassigned(T, keys) == {key \in keys : key \notin DOMAIN T.e}

AllUnassignedReadFloor(T, keys) == \A key \in Unassigned(T, keys) : Lookup(T, key) = MIN_PROB

FreshlyReset == pc = "new"
UniformlySeeded == pc \in {"estep", "mstep", "done"} /\ n = 0 /\ ibm3_invoked

UniformSeedValue(dj) ==
    LET max_m == longest_target_sentence_length(corpus)
    IN  IF dj # 0 /\ dj <= max_m - 1 /\ 0 - dj <= max_m - 1
        THEN FDiv(1, 2 * (max_m - 1))
        ELSE MIN_PROB

\* C5 as stated: in every freshly reset, uniformly seeded or trained state a
\* key never assigned in the translation, fertility, head or non-head
\* distortion table reads as MIN_PROB
C5_Original ==
    (FreshlyReset \/ UniformlySeeded \/ Trained) =>
        /\ AllUnassignedReadFloor(self.translation_table, TranslationKeys)
        /\ AllUnassignedReadFloor(self.fertility_table, FertilityKeys)
        /\ AllUnassignedReadFloor(self.head_distortion_table, HeadKeys)
        /\ AllUnassignedReadFloor(self.non_head_distortion_table, NonHeadKeys)

\* C5 amended: unassigned keys read as MIN_PROB in the freshly reset state
\* and after any training pass; in the uniformly seeded state an unassigned
\* distortion key reads as the uniform seed value when its displacement is
\* nonzero and within the seeded range, and as MIN_PROB otherwise
C5_UnseenKeysReadDefault ==
    /\ (FreshlyReset \/ Trained) =>
          /\ AllUnassignedReadFloor(self.translation_table, TranslationKeys)
          /\ AllUnassignedReadFloor(self.fertility_table, FertilityKeys)
          /\ AllUnassignedReadFloor(self.head_distortion_table, HeadKeys)
          /\ AllUnassignedReadFloor(self.non_head_distortion_table, NonHeadKeys)
    /\ UniformlySeeded =>
          /\ AllUnassignedReadFloor(self.translation_table, TranslationKeys)
          /\ AllUnassignedReadFloor(self.fertility_table, FertilityKeys)
          /\ \A key \in Unassigned(self.head_distortion_table, HeadKeys) :
                Lookup(self.head_distortion_table, key) = UniformSeedValue(key[1])
          /\ \A key \in Unassigned(self.non_head_distortion_table, NonHeadKeys) :
                Lookup(self.non_head_distortion_table, key) = UniformSeedValue(key[1])

\* a model seeded uniformly with a value above the floor has been trained,
\* and keys of all four tables are still unassigned
C5_Witness ==
    /\ Trained
    /\ ibm3_invoked
    /\ seeded.tables.head_distortion_table.d # EmptyFn
    /\ \E dj \in DOMAIN seeded.tables.head_distortion_table.d :
          /\ seeded.tables.head_distortion_table.d[dj] > MIN_PROB
          /\ <<dj, None, 0>> \in Unassigned(self.head_distortion_table, HeadKeys)
          /\ <<dj, 0>> \in Unassigned(self.non_head_distortion_table, NonHeadKeys)
    /\ Unassigned(self.translation_table, TranslationKeys) # {}
    /\ Unassigned(self.fertility_table, FertilityKeys) # {}

\* ---- C6
Range(f) == {f[w] : w \in DOMAIN f}
WordClassError == err = "KeyError: word class"

\* a word of the corpus vocabulary has no entry in its word-class map
MissingClassWord ==
    \E i \in Sentences :
        \/ \E q \in 1..Len(corpus[i].mots) : corpus[i].mots[q] \notin DOMAIN src_classes
        \/ \E q \in 1..Len(corpus[i].words) : corpus[i].words[q] \notin DOMAIN trg_classes

\* the words whose class distortion_term and update_distortion look up for a
LookedUpClassed(a) ==
    \A j \in 1..TrgLen(a) :
        a.alignment[j] # 0 =>
            /\ a.trg[j] \in DOMAIN trg_classes
            /\ (is_head_word(a, j) /\ previous_cept(a, j) # None) =>
                   a.src[previous_cept(a, j)] \in DOMAIN src_classes

\* C6 as stated: a corpus word without a class makes construction fail at its
\* start, before any sentence is scored and any count is accumulated
C6_Original ==
    MissingClassWord =>
        /\ pc \notin {"mstep", "done"}
        /\ pc = "estep" => k = 1 /\ n = 0
        /\ WordClassError =>
              /\ n = 0
              /\ counts = Model4Counts
              /\ Recorded(corpus) = seeded.alignments

\* C6 amended: the error is raised only where the class of a word without an
\* entry is looked up, inside a training pass (possibly after sentences were
\* scored, counts accumulated and passes completed); alignments whose looked
\* up words all have a class train without error, and no word is ever given
\* a default class
C6_ErrorAtLookup ==
    /\ WordClassError => MissingClassWord /\ pc = "error" /\ n < iterations
    /\ \A i \in Sentences :
          (sampled[i] # NoAlignment /\ ~(pc = "error" /\ i = k)) =>
              LookedUpClassed(sampled[i])
    /\ \A key \in DOMAIN counts.head_distortion :
          /\ key[2] \in {None} \cup Range(src_classes)
          /\ key[3] \in Range(trg_classes)
    /\ \A key \in DOMAIN counts.non_head_distortion : key[2] \in Range(trg_classes)
    /\ \A key \in DOMAIN self.head_distortion_table.e :
          Trained => key[2] \in {None} \cup Range(src_classes) /\ key[3] \in Range(trg_classes)

\* the missing class is first looked up in the second pass, after a whole
\* pass has been scored, counted and maximized
C6_Witness ==
    /\ WordClassError
    /\ n >= 1
    /\ counts.head_distortion # EmptyFn
    /\ Recorded(corpus) # seeded.alignments

\* construction completes all its passes although a corpus word has no class
C6_SilentWitness ==
    /\ MissingClassWord
    /\ pc = "done"
    /\ iterations = MaxIter
    /\ err = "none"

\* ---- C7
IncompleteTables ==
    /\ probability_tables.given
    /\ \E q \in 1..Len(TableNames) : TableNames[q] \notin DOMAIN probability_tables.dict

\* C7: probability_tables lacking one of the six entries makes construction
\* fail before the first pass, with no alignment modified; with user-defined
\* tables Model 3 is not invoked
C7_IncompleteTablesFail ==
    /\ IncompleteTables =>
          /\ pc \in {"new", "error"}
          /\ pc = "error" =>
                /\ err = "KeyError: probability_tables"
                /\ n = 0
                /\ counts = Model4Counts
                /\ \A i \in Sentences : corpus[i].alignment = {} /\ sampled[i] = NoAlignment
    /\ probability_tables.given => ~ibm3_invoked

\* construction failed on the last of the six entries, after the other five
\* were taken
C7_Witness ==
    /\ pc = "error"
    /\ err = "KeyError: probability_tables"
    /\ iterations > 0
    /\ "non_head_distortion_table" \notin DOMAIN probability_tables.dict
    /\ self.head_distortion_table = probability_tables.dict["head_distortion_table"]
    /\ self.head_distortion_table # EmptyTable

\* ---- C8
\* the zero-indexed form of an alignment: target position j - 1 paired with
\* source position i - 1, or with None when j is aligned to NULL
ZeroIndexedForm(a) ==
    {<<j - 1, a.alignment[j] - 1>> : j \in {q \in 1..TrgLen(a) : a.alignment[q] # 0}}
    \cup {<<j - 1, None>> : j \in {q \in 1..TrgLen(a) : a.alignment[q] = 0}}

\* C8: after a train pass the recorded alignment of every sentence pair is
\* the zero-indexed form of the best alignment the sampler returned for it
C8_BestAlignmentRecorded ==
    (Trained \/ pc = "mstep") =>
        \A i \in Sentences :
            /\ sampled[i] # NoAlignment
            /\ sampled[i].trg = corpus[i].words
            /\ corpus[i].alignment = ZeroIndexedForm(sampled[i])

\* a pass is complete on the two-pair corpus; the first pair's best alignment
\* has a NULL-aligned word and a word aligned to the second source word
C8_Witness ==
    /\ pc = "mstep"
    /\ Len(corpus) = 2
    /\ <<0, None>> \in corpus[1].alignment
    /\ <<1, 1>> \in corpus[1].alignment
    /\ <<0, 0>> \in corpus[2].alignment

\* ---- C9
\* the counts variable still holds the counts the last Maximization used
CountsOfLastPass == Trained /\ (pc = "done" \/ (pc = "estep" /\ k = 1))

\* C9: running the distortion Maximization again with the same counts leaves
\* the head and non-head distortion tables as the first run made them
C9_MaximizationTwice ==
    CountsOfLastPass =>
        LET again == maximize_distortion_probabilities(self, counts)
        IN  /\ again.head_distortion_table = self.head_distortion_table
            /\ again.non_head_distortion_table = self.non_head_distortion_table

\* the Maximization wrote head entries for two displacements of one context,
\* one of them clamped, and a non-head entry
C9_Witness ==
    /\ CountsOfLastPass
    /\ \E k1, k2 \in DOMAIN self.head_distortion_table.e :
          /\ k1[1] # k2[1] /\ k1[2] = k2[2] /\ k1[3] = k2[3]
          /\ self.head_distortion_table.e[k1] < Scale
    /\ DOMAIN self.non_head_distortion_table.e # {}

\* ---- C10
\* C10: after uniform seeding every head and non-head distortion lookup with
\* dj nonzero in [-(maxM-1), maxM-1] returns 1 / (2*(maxM-1)); displacement
\* 0 and displacements outside the range read as MIN_PROB; with maxM <= 1
\* the uniform value is MIN_PROB
C10_UniformSeed ==
    UniformlySeeded =>
        LET max_m == longest_target_sentence_length(corpus)
        IN  \A dj \in DjRange, s \in ClassIds, t \in ClassIds :
              LET expected ==
                    IF dj = 0 \/ dj > max_m - 1 \/ dj < 0 - (max_m - 1) THEN MIN_PROB
                    ELSE IF max_m <= 1 THEN MIN_PROB
                    ELSE Scale \div (2 * (max_m - 1))
              IN  /\ Lookup(self.head_distortion_table, <<dj, s, t>>) = expected
                  /\ Lookup(self.non_head_distortion_table, <<dj, t>>) = expected

\* the model was seeded from a corpus whose longest target sentence has two
\* words: displacements -1 and 1 read as 1/2
C10_Witness ==
    /\ UniformlySeeded
    /\ pc = "estep"
    /\ longest_target_sentence_length(corpus) = 2
    /\ Lookup(self.head_distortion_table, <<1, None, 0>>) = Scale \div 2
    /\ Lookup(self.non_head_distortion_table, <<0 - 1, 1>>) = Scale \div 2
    /\ Lookup(self.head_distortion_table, <<2, None, 0>>) = MIN_PROB

\* ------------------------------------------------- a call of the scorer
\* prob_t_a_given_s called on a constructed model, one term at a step.  The
\* frame holds the alignment_info, the running probability, the position j
\* and, per term evaluated so far, the running product after it.
Term(name, j, probability) == [term |-> name, j |-> j, probability |-> probability]

Evaluated(name, j, probability) ==
    [scorer EXCEPT !.trace = Append(@, Term(name, j, probability)),
                   !.probability = probability]

Returned(frame, value) == [frame EXCEPT !.at = "returned", !.result = value]

\* lines 431-433
ScoreNull ==
    /\ scorer.at = "null"
    /\ LET probability == FMul(scorer.probability,
                               null_generation_term(scorer.alignment_info, ibm_model))
           frame == [Evaluated("null", 0, probability) EXCEPT
                        !.p0 = null_generation_p0(ibm_model)]
       IN  scorer' = IF probability < MIN_PROB THEN Returned(frame, MIN_PROB)
                     ELSE [frame EXCEPT !.at = "fertility"]
    /\ UNCHANGED <<pc, corpus, iterations, src_classes, trg_classes, probability_tables,
                   self, counts, n, k, err, seeded, ibm3_invoked, sampled, distance>>

\* lines 435-437
ScoreFertility ==
    /\ scorer.at = "fertility"
    /\ LET probability == FMul(scorer.probability,
                               fertility_term(scorer.alignment_info, ibm_model))
           frame == Evaluated("fertility", 0, probability)
       IN  scorer' = IF probability < MIN_PROB THEN Returned(frame, MIN_PROB)
                     ELSE [frame EXCEPT !.at = "lexical", !.j = 1]
    /\ UNCHANGED <<pc, corpus, iterations, src_classes, trg_classes, probability_tables,
                   self, counts, n, k, err, seeded, ibm3_invoked, sampled, distance>>

\* the product goes on to the distortion factor whatever its value
ScoreLexical_NoCheck ==
    /\ scorer.at = "lexical"
    /\ LET probability == FMul(scorer.probability,
                               lexical_translation_term(scorer.alignment_info, ibm_model,
                                                        scorer.j))
       IN  scorer' = [Evaluated("lexical", scorer.j, probability) EXCEPT !.at = "distortion"]
    /\ UNCHANGED <<pc, corpus, iterations, src_classes, trg_classes, probability_tables,
                   self, counts, n, k, err, seeded, ibm3_invoked, sampled, distance>>

\* the comparison with MIN_PROB is the wrong way round
ScoreLexical_Flipped ==
    /\ scorer.at = "lexical"
    /\ LET probability == FMul(scorer.probability,
                               lexical_translation_term(scorer.alignment_info, ibm_model,
                                                        scorer.j))
           frame == Evaluated("lexical", scorer.j, probability)
       IN  scorer' = IF probability > MIN_PROB THEN Returned(frame, MIN_PROB)
                     ELSE [frame EXCEPT !.at = "distortion"]
    /\ UNCHANGED <<pc, corpus, iterations, src_classes, trg_classes, probability_tables,
                   self, counts, n, k, err, seeded, ibm3_invoked, sampled, distance>>

\* lines 439-442
ScoreLexical ==
    /\ scorer.at = "lexical"
    /\ LET probability == FMul(scorer.probability,
                               lexical_translation_term(scorer.alignment_info, ibm_model,
                                                        scorer.j))
           frame == Evaluated("lexical", scorer.j, probability)
       IN  scorer' = IF probability < MIN_PROB THEN Returned(frame, MIN_PROB)
                     ELSE [frame EXCEPT !.at = "distortion"]
    /\ UNCHANGED <<pc, corpus, iterations, src_classes, trg_classes, probability_tables,
                   self, counts, n, k, err, seeded, ibm3_invoked, sampled, distance>>

\* lines 444-448; a word without a class makes the call raise KeyError
ScoreDistortion ==
    /\ scorer.at = "distortion"
    /\ LET a == scorer.alignment_info
           d == distortion_term(a, ibm_model, scorer.j)
           probability == FMul(scorer.probability, d)
           frame == Evaluated("distortion", scorer.j, probability)
       IN  scorer' =
             IF d = KeyError
             THEN Returned([scorer EXCEPT !.trace = Append(@, Term("distortion", scorer.j,
                                                                  KeyError))],
                           KeyError)
             ELSE IF probability < MIN_PROB THEN Returned(frame, MIN_PROB)
             ELSE IF scorer.j = TrgLen(a) THEN Returned(frame, probability)
             ELSE [frame EXCEPT !.at = "lexical", !.j = scorer.j + 1]
    /\ UNCHANGED <<pc, corpus, iterations, src_classes, trg_classes, probability_tables,
                   self, counts, n, k, err, seeded, ibm3_invoked, sampled, distance>>

\* the call: probability = 1.0 (line 366)
Call(alignment_info) ==
    [at |-> "null", alignment_info |-> alignment_info, probability |-> Scale, j |-> 0,
     p0 |-> None, result |-> None, trace |-> <<>>]

\* ---- the models the scorer is called on
\* three target words, two source words
PairXYX == AlignedSent(<<"x", "y", "x">>, <<"a", "b">>)
PairXXX == AlignedSent(<<"x", "x", "x">>, <<"a", "b">>)
PairXY == AlignedSent(<<"x", "y">>, <<"a", "b">>)
ScoredPairs == {PairXYX, PairXXX, PairXY}

ModelOf(tables, src_cls, trg_cls) ==
    [translation_table |-> tables.translation_table,
     fertility_table |-> tables.fertility_table,
     p1 |-> tables.p1,
     head_distortion_table |-> tables.head_distortion_table,
     non_head_distortion_table |-> tables.non_head_distortion_table,
     src_classes |-> src_cls,
     trg_classes |-> trg_cls]

\* __init__ with probability_tables = None and iterations = 0
SeededTables(sentence_aligned_corpus) ==
    LET ibm3 == Model3Output
    IN  set_uniform_probabilities(
            [reset_probabilities(EmptyFn) EXCEPT
               !.translation_table = ibm3.translation_table,
               !.alignment_table = ibm3.alignment_table,
               !.fertility_table = ibm3.fertility_table,
               !.p1 = ibm3.p1],
            sentence_aligned_corpus)

\* User-defined tables, each a distribution: source word b translates to x
\* and has fertility 3, source word a is all but certain to have fertility 1,
\* and every tablet is laid out left to right.
ExplicitSkew ==
    [translation_table |-> Constant({<<"x", "b">>, <<"x", "a">>}, Scale),
     alignment_table |-> Constant({<<1, 1, 2, 3>>}, Scale),
     fertility_table |->
        [e |-> (<<0, "a">> :> (MIN_PROB \div 2)) @@ (<<1, "a">> :> (Scale - (MIN_PROB \div 2)))
               @@ (<<3, "b">> :> Scale),
         d |-> EmptyFn],
     p1 |-> MIN_PROB,
     head_distortion_table |-> Constant({<<1, None, 0>>}, Scale),
     non_head_distortion_table |-> Constant({<<1, 0>>}, Scale)]

\* the state after construction, as the variables hold it
Constructed(c, q, given, tables, passes, cnt, seed, best) ==
    [corpus |-> c, iterations |-> q,
     probability_tables |-> given, self |-> tables, n |-> passes, counts |-> cnt,
     seeded |-> seed, ibm3_invoked |-> ~given.given, sampled |-> best]

\* seeded and trained for one pass, the sampler returning every alignment
\* that gives NULL at most half of the target words
TrainedOnce(sent) ==
    LET c == <<sent>>
        tables == SeededTables(c)
        M == ModelOf(tables, FullSrcClasses, FullTrgClasses)
        S == AlignmentInfos(sent)
        best == CHOOSE a \in S : \A b \in S : prob_t_a_given_s(b, M) <= prob_t_a_given_s(a, M)
        cnt == collect_counts(Model4Counts, S, prob_of_alignments(S, M), M)
    IN  Constructed(Record(c, 1, best), 1, [given |-> FALSE, dict |-> EmptyFn],
                    m_step(tables, cnt), 1, cnt, Snapshot(tables, c), <<best>>)

Untrained(sent, given, tables) ==
    Constructed(<<sent>>, 0, given, tables, 0, Model4Counts, Snapshot(tables, <<sent>>),
                <<NoAlignment>>)

ScoredModels(sent) ==
    {Untrained(sent, [given |-> FALSE, dict |-> EmptyFn], SeededTables(<<sent>>)),
     Untrained(sent, [given |-> TRUE, dict |-> ExplicitSharp], ExplicitSharp),
     Untrained(sent, [given |-> TRUE, dict |-> ExplicitSkew], ExplicitSkew),
     TrainedOnce(sent)}

ScoredClassMaps ==
    {<<FullSrcClasses, FullTrgClasses>>, <<FullSrcClasses, Restrict(FullTrgClasses, {"y"})>>}

\* a constructed model and a call of prob_t_a_given_s with any alignment of
\* its sentence pair
ScoreInit ==
    /\ pc = "done"
    /\ err = "none"
    /\ k = 1
    /\ \E sent \in ScoredPairs : \E c \in ScoredModels(sent) :
         /\ corpus = c.corpus
         /\ iterations = c.iterations
         /\ probability_tables = c.probability_tables
         /\ self = c.self
         /\ n = c.n
         /\ counts = c.counts
         /\ seeded = c.seeded
         /\ ibm3_invoked = c.ibm3_invoked
         /\ sampled = c.sampled
         /\ \E cm \in ScoredClassMaps :
              /\ src_classes = cm[1]
              /\ trg_classes = cm[2]
              /\ (c.n > 0 => cm = <<FullSrcClasses, FullTrgClasses>>)
         /\ \E a \in AllAlignmentInfos(sent) : scorer = Call(a)
    /\ distance = NoCall

ScoreNext == ScoreNull \/ ScoreFertility \/ ScoreLexical \/ ScoreDistortion

ScoreSpec == ScoreInit /\ [][ScoreNext]_vars

\* ------------------------------------------------------------------ C11
Scored == scorer.at \notin {"idle", "null"}

\* C11: the p0 the scorer uses is 1 - p1 of the model it scores with, so
\* p1 + p0 = 1 in the seeded state, with user-defined tables and after a pass
C11_P0Complement ==
    Scored => self.p1 + scorer.p0 = Scale

\* the scorer evaluated the null-generation term of a trained model whose p1
\* is neither the reset value 1/2 nor the seed's 1/4
C11_Witness ==
    /\ Scored
    /\ n = 1
    /\ self.p1 \notin {Scale \div 2, Scale \div 4}
    /\ scorer.p0 = Scale - self.p1

\* ------------------------------------------------------------------ C13
\* the number of ways to choose q of p
RECURSIVE Binomial(_, _)
Binomial(p, q) ==
    IF q = 0 THEN 1
    ELSE IF p <= 0 THEN 0
    ELSE Binomial(p - 1, q - 1) + Binomial(p - 1, q)

\* p1^phi0 * p0^(m - 2 phi0)
NullPower(a, M) ==
    LET null_fertility == fertility_of_i(a, 0)
    IN  FMul(FPow(M.p1, null_fertility),
             FPow(Scale - M.p1, TrgLen(a) - 2 * null_fertility))

\* C(m - phi0, phi0) * p1^phi0 * p0^(m - 2 phi0)
NullFormula(a, M) ==
    Binomial(TrgLen(a) - fertility_of_i(a, 0), fertility_of_i(a, 0)) * NullPower(a, M)

\* phi_i! * fertility_table[phi_i][s_i] for the real source positions
FertilityFactors(a, M) ==
    [i \in 1..SrcLen(a) |->
        factorial(fertility_of_i(a, i))
          * Lookup(M.fertility_table, <<fertility_of_i(a, i), a.src[i]>>)]

\* every factor of the product, none of them clamped
UnclampedFactors(a, M) ==
    <<NullFormula(a, M)>> \o FertilityFactors(a, M) \o
    [q \in 1..(2 * TrgLen(a)) |->
        IF q % 2 = 1 THEN lexical_translation_term(a, M, (q + 1) \div 2)
        ELSE distortion_term(a, M, q \div 2)]

Unclamped(a, M) == Running(UnclampedFactors(a, M), Len(UnclampedFactors(a, M)))

\* the call returned before it had evaluated every term
TerminatedEarly ==
    /\ scorer.at = "returned"
    /\ Len(scorer.trace) < 2 + 2 * TrgLen(scorer.alignment_info)

\* the null-generation term or the fertility term returned MIN_PROB from
\* inside
ClampedInside(a, M) ==
    \/ NullPower(a, M) < MIN_PROB
    \/ \E q \in 1..SrcLen(a) : Running(FertilityFactors(a, M), q) < MIN_PROB

ReturnedFloor ==
    /\ scorer.at = "returned"
    /\ scorer.result = MIN_PROB
    /\ Classed(scorer.alignment_info)
    /\ TerminatedEarly \/ ClampedInside(scorer.alignment_info, ibm_model)

AllFactorsAtMostOne(a, M) ==
    /\ Binomial(TrgLen(a) - fertility_of_i(a, 0), fertility_of_i(a, 0)) <= 1
    /\ \A q \in 2..Len(UnclampedFactors(a, M)) : UnclampedFactors(a, M)[q] <= Scale

\* C13 as stated: whenever the scorer returns MIN_PROB after an early return
\* or an internal clamp, MIN_PROB is at least the unclamped product of all
\* the factors, the fertility factorials included
C13_Original ==
    ReturnedFloor => MIN_PROB >= Unclamped(scorer.alignment_info, ibm_model)

\* C13 amended: the returned MIN_PROB is at least the unclamped product
\* whenever no factor of the product exceeds 1
C13_FloorBoundsProduct ==
    (ReturnedFloor /\ AllFactorsAtMostOne(scorer.alignment_info, ibm_model))
        => MIN_PROB >= Unclamped(scorer.alignment_info, ibm_model)

\* the scorer returned MIN_PROB at a check inside the position loop, every
\* factor being at most 1, and the unclamped product is below MIN_PROB
C13_Witness ==
    /\ ReturnedFloor
    /\ TerminatedEarly
    /\ Len(scorer.trace) > 2
    /\ AllFactorsAtMostOne(scorer.alignment_info, ibm_model)
    /\ fertility_of_i(scorer.alignment_info, 0) = 0
    /\ Unclamped(scorer.alignment_info, ibm_model) < MIN_PROB

\* ------------------------------------------------------------------ C14
\* the target positions whose distortion factor the call has looked up in
\* the head table, and those it has looked up in the non-head table
HeadLookups ==
    {scorer.trace[q].j : q \in {r \in 1..Len(scorer.trace) :
        /\ scorer.trace[r].term = "distortion"
        /\ scorer.trace[r].probability # KeyError
        /\ scorer.alignment_info.alignment[scorer.trace[r].j] # 0
        /\ is_head_word(scorer.alignment_info, scorer.trace[r].j)}}

NonHeadLookups ==
    {scorer.trace[q].j : q \in {r \in 1..Len(scorer.trace) :
        /\ scorer.trace[r].term = "distortion"
        /\ scorer.trace[r].probability # KeyError
        /\ scorer.alignment_info.alignment[scorer.trace[r].j] # 0
        /\ ~is_head_word(scorer.alignment_info, scorer.trace[r].j)}}

\* C14: the displacement of a head word is never 0: head_distortion is
\* indexed with dj = 0 neither by a lookup of the scorer nor by a count
C14_HeadDjNonzero ==
    /\ \A j \in HeadLookups : HeadDj(scorer.alignment_info, j) # 0
    /\ \A key \in DOMAIN counts.head_distortion : key[1] # 0

\* ------------------------------------------------------------------ C15
Abs(x) == IF x < 0 THEN 0 - x ELSE x

\* C15: with m target words every displacement that indexes a distortion
\* table, in a lookup of the scorer or in a count, lies in -(m-1)..(m-1)
C15_DjWithinRange ==
    LET m == Len(corpus[1].words)
    IN  /\ \A j \in HeadLookups : Abs(HeadDj(scorer.alignment_info, j)) <= m - 1
        /\ \A j \in NonHeadLookups : Abs(NonHeadDj(scorer.alignment_info, j)) <= m - 1
        /\ \A key \in DOMAIN counts.head_distortion : Abs(key[1]) <= m - 1
        /\ \A key \in DOMAIN counts.non_head_distortion : Abs(key[1]) <= m - 1

\* ------------------------------------------------------------------ C16
\* the q-th term of the fixed order: null, fertility, then lexical and
\* distortion of position 1, of position 2, ...
OrderedTerm(q) ==
    IF q = 1 THEN Term("null", 0, 0)
    ELSE IF q = 2 THEN Term("fertility", 0, 0)
    ELSE IF q % 2 = 1 THEN Term("lexical", (q - 1) \div 2, 0)
    ELSE Term("distortion", (q - 2) \div 2, 0)

\* C16: the terms are evaluated in the fixed order null, fertility, then per
\* position lexical and distortion; a term is evaluated only if the running
\* product was >= MIN_PROB after every earlier one, and the call returns
\* before the last term only with MIN_PROB (or the KeyError of the term)
C16_FixedOrder ==
    LET t == scorer.trace
        last == 2 + 2 * TrgLen(scorer.alignment_info)
    IN  /\ Len(t) <= last
        /\ \A q \in 1..Len(t) :
              /\ t[q].term = OrderedTerm(q).term
              /\ t[q].j = OrderedTerm(q).j
              /\ q < Len(t) => t[q].probability >= MIN_PROB
        /\ (scorer.at = "returned" /\ Len(t) < last) =>
              /\ t[Len(t)].probability < MIN_PROB
              /\ scorer.result = IF t[Len(t)].probability = KeyError THEN KeyError
                                 ELSE MIN_PROB
        /\ (scorer.at # "returned" /\ Len(t) > 0) => t[Len(t)].probability >= MIN_PROB

\* the call returned MIN_PROB at the lexical check of a position, and the
\* distortion factor of a later position would have raised KeyError for a
\* word without a class
C16_Witness ==
    /\ scorer.at = "returned"
    /\ scorer.result = MIN_PROB
    /\ Len(scorer.trace) > 2
    /\ scorer.trace[Len(scorer.trace)].term = "lexical"
    /\ \E j \in 1..TrgLen(scorer.alignment_info) :
         /\ j > scorer.trace[Len(scorer.trace)].j
         /\ distortion_term(scorer.alignment_info, ibm_model, j) = KeyError

\* ------------------------------------------------------------------ C17
\* the value the call got from null_generation_term (probability was 1.0)
NullTermOfCall == scorer.trace[1].probability

\* C17 as stated: the null-generation term is
\* C(m - phi0, phi0) * p1^phi0 * p0^(m - 2 phi0) for every m, phi0 and p1
C17_Original ==
    Scored => NullTermOfCall = NullFormula(scorer.alignment_info, ibm_model)

\* C17 amended: the term is the binomial formula when p1^phi0 * p0^(m - 2 phi0)
\* is at least MIN_PROB, and MIN_PROB otherwise
C17_NullTermFormula ==
    Scored =>
        NullTermOfCall =
            IF NullPower(scorer.alignment_info, ibm_model) < MIN_PROB THEN MIN_PROB
            ELSE NullFormula(scorer.alignment_info, ibm_model)

\* one of three target words is aligned to NULL and the term is twice
\* p1 * p0, above the floor
C17_Witness ==
    /\ Scored
    /\ TrgLen(scorer.alignment_info) = 3
    /\ fertility_of_i(scorer.alignment_info, 0) = 1
    /\ NullPower(scorer.alignment_info, ibm_model) >= MIN_PROB
    /\ NullTermOfCall = 2 * FMul(self.p1, Scale - self.p1)
    /\ NullTermOfCall > MIN_PROB

\* ------------------------------------------------------------------ C18
\* the product of the fertility factors of the real source positions
FertilityProduct(a, M) == Running(FertilityFactors(a, M), SrcLen(a))

\* null term * fertility product * lexical and distortion factors of every
\* target position
ProductFactors(a, M) ==
    <<NullFormula(a, M), FertilityProduct(a, M)>> \o
    [q \in 1..(2 * TrgLen(a)) |->
        IF q % 2 = 1 THEN lexical_translation_term(a, M, (q + 1) \div 2)
        ELSE distortion_term(a, M, q \div 2)]

FullProduct(a, M) == Running(ProductFactors(a, M), Len(ProductFactors(a, M)))

\* the call evaluated every term, and no partial product, inside a term or
\* at a check, was below MIN_PROB
NoPartialBelow ==
    /\ scorer.at = "returned"
    /\ Len(scorer.trace) = 2 + 2 * TrgLen(scorer.alignment_info)
    /\ scorer.trace[Len(scorer.trace)].probability >= MIN_PROB
    /\ ~ClampedInside(scorer.alignment_info, ibm_model)

\* C18: when no partial product falls below MIN_PROB the call returns the
\* null term times fertility_table[phi_i][s_i] * phi_i! over the real source
\* positions (NULL has no fertility factor) times the lexical and the
\* distortion factor of every target position
C18_ExactProduct ==
    NoPartialBelow => scorer.result = FullProduct(scorer.alignment_info, ibm_model)

\* a full product above the floor for an alignment that gives NULL one word
\* and some source word two
C18_Witness ==
    /\ NoPartialBelow
    /\ scorer.result > MIN_PROB
    /\ fertility_of_i(scorer.alignment_info, 0) = 1
    /\ \E i \in 1..SrcLen(scorer.alignment_info) : fertility_of_i(scorer.alignment_info, i) = 2

\* ------------------------------------------------------------------ C19
\* C19: after a pass, for every key counted in the pass the head entry is
\* max(MIN_PROB, head_distortion / head_distortion_for_any_dj) and the
\* non-head entry is max(MIN_PROB, non_head_distortion /
\* non_head_distortion_for_any_dj), and each lies in [MIN_PROB, 1]
C19_MaximizationFormula ==
    CountsOfLastPass =>
        /\ \A key \in DOMAIN counts.head_distortion :
              LET entry == Lookup(self.head_distortion_table, key)
                  ratio == FDiv(counts.head_distortion[key],
                                counts.head_distortion_for_any_dj[<<key[2], key[3]>>])
              IN  /\ entry = Max(MIN_PROB, ratio)
                  /\ entry >= MIN_PROB /\ entry <= Scale
        /\ \A key \in DOMAIN counts.non_head_distortion :
              LET entry == Lookup(self.non_head_distortion_table, key)
                  ratio == FDiv(counts.non_head_distortion[key],
                                counts.non_head_distortion_for_any_dj[<<key[2]>>])
              IN  /\ entry = Max(MIN_PROB, ratio)
                  /\ entry >= MIN_PROB /\ entry <= Scale

\* a pass counted head displacements in two contexts, one head entry is a
\* ratio strictly between MIN_PROB and 1, and a non-head entry was written
C19_Witness ==
    /\ CountsOfLastPass
    /\ \E k1, k2 \in DOMAIN counts.head_distortion :
          /\ <<k1[2], k1[3]>> # <<k2[2], k2[3]>>
          /\ Lookup(self.head_distortion_table, k1) > MIN_PROB
          /\ Lookup(self.head_distortion_table, k1) < Scale
    /\ \E key \in DOMAIN counts.non_head_distortion :
          Lookup(self.non_head_distortion_table, key) >= MIN_PROB

\* ------------------------------------------------------------------ C20
\* the sentence pairs whose counts the counts variable holds: those of the
\* pass under way, or all of them once the pass has ended
CountedPairs ==
    IF pc = "estep" /\ k > 1 THEN k - 1
    ELSE IF pc = "mstep" \/ CountsOfLastPass THEN Len(corpus)
    ELSE 0

\* the target words of the first q sentence pairs
TargetWords(q) == SumSeq([i \in 1..q |-> Len(corpus[i].words)])

\* the total lexical count: every sampled alignment adds its normalized
\* count once per target word
LexicalMass == SumOf(counts.any_t_given_s, DOMAIN counts.any_t_given_s)

\* C20: the counts hold the weight of the current pass alone: per counted
\* sentence pair one unit of normalized count for each target word (less
\* the rounding of one unit per sample), never the weight of an earlier pass
C20_CountsOfOnePass ==
    CountedPairs > 0 =>
        /\ LexicalMass <= Scale * TargetWords(CountedPairs)
        /\ LexicalMass >= (Scale - MaxSamples) * TargetWords(CountedPairs)
        /\ counts.word_count = LexicalMass

\* the second pass has counted the whole corpus
C20_Witness ==
    /\ pc = "mstep"
    /\ n = 1
    /\ Len(corpus) = 2
    /\ LexicalMass > 0
    /\ LexicalMass <= Scale * TargetWords(Len(corpus))

\* ------------------------------------------------------------------ C21
\* C21: while the E step of a pass runs no table changes; the tables change
\* only in the M step, which runs once the last sentence pair has been
\* processed and writes the Maximization of this pass's counts, and the word
\* classes never change
C21_TablesReadOnlyInPass ==
    [][/\ pc = "estep" => self' = self
       /\ (pc # "new" /\ self' # self) =>
             /\ pc = "mstep"
             /\ k = Len(corpus)
             /\ self' = m_step(self, counts)
             /\ pc' \in {"estep", "done"}
       /\ src_classes' = src_classes /\ trg_classes' = trg_classes]_vars

\* the second pass is at its second sentence pair and reads tables that the
\* first pass's Maximization wrote
C21_Witness ==
    /\ pc = "estep"
    /\ n = 1
    /\ k = 2
    /\ self # seeded.tables
    /\ self.head_distortion_table.e # EmptyFn

\* ------------------------------------------------------------------ C22
\* the total of a count table
Mass(f) == SumOf(f, DOMAIN f)

\* the candidates of the sentence pair at hand with their scores (line 308)
ScoredCandidates ==
    {[alignment_info |-> a, count |-> prob_t_a_given_s(a, ibm_model)] :
        a \in AlignmentInfos(corpus[k])}

\* the total of line 304 for the scored candidates S
RECURSIVE TotalCount(_)
TotalCount(S) ==
    IF S = {} THEN 0
    ELSE LET c == CHOOSE x \in S : TRUE
         IN  c.count + TotalCount(S \ {c})

\* every candidate of every candidate set of the sentence pair at hand has
\* a weight count / total_count (line 309) in (0, 1]
WeightsInUnitInterval ==
    \A S \in SUBSET ScoredCandidates :
        (/\ Cardinality(S) >= 1
         /\ Cardinality(S) <= MaxSamples
         /\ \A c \in S : c.count # KeyError) =>
            \A c \in S : /\ FDiv(c.count, TotalCount(S)) > 0
                          /\ FDiv(c.count, TotalCount(S)) <= Scale

\* what one sentence pair adds to the four count families
AddedWords == counts'.word_count - pass_counts.word_count
AddedNull == counts'.null_count - pass_counts.null_count
AddedLexical == Mass(counts'.any_t_given_s) - Mass(pass_counts.any_t_given_s)
AddedFertility ==
    Mass(counts'.fertility_for_any_phi) - Mass(pass_counts.fertility_for_any_phi)
AddedDistortion ==
    (Mass(counts'.head_distortion_for_any_dj)
       + Mass(counts'.non_head_distortion_for_any_dj))
    - (Mass(pass_counts.head_distortion_for_any_dj)
       + Mass(pass_counts.non_head_distortion_for_any_dj))

\* C22: the candidates of one sentence pair are counted with weights
\* score / total, each in (0, 1], that sum to 1 (less the rounding of one unit
\* per candidate), and the same weights reach all four count families: a
\* sentence pair of m target and l source words adds m to the lexical
\* counts, l + 1 to the fertility counts, and m to the distortion and null
\* generation counts together
C22_NormalizedWeights ==
    [][(pc = "estep" /\ pc' # "error") =>
         LET m == Len(corpus[k].words)
             l == Len(corpus[k].mots)
         IN  /\ WeightsInUnitInterval
             /\ AddedWords <= m * Scale
             /\ AddedWords >= m * (Scale - MaxSamples)
             /\ AddedLexical = AddedWords
             /\ AddedFertility * m = AddedWords * (l + 1)
             /\ AddedDistortion + AddedNull = AddedWords]_vars

\* the first sentence pair of a pass has been counted from two candidates
\* of different weight: the weights are rounded, and both NULL-aligned and
\* other positions are counted
C22_Witness ==
    /\ pc = "estep"
    /\ k = 2
    /\ counts.word_count > 0
    /\ counts.word_count < Len(corpus[1].words) * Scale
    /\ counts.null_count > 0
    /\ Mass(counts.head_distortion_for_any_dj) > 0

\* ------------------------------------------------------------------ C23
\* the element-wise sum of two count tables and of two Counts accumulators
SumFn(f, g) ==
    [key \in DOMAIN f \cup DOMAIN g |->
        (IF key \in DOMAIN f THEN f[key] ELSE 0)
          + (IF key \in DOMAIN g THEN g[key] ELSE 0)]

Merge(c, d) ==
    [t_given_s |-> SumFn(c.t_given_s, d.t_given_s),
     any_t_given_s |-> SumFn(c.any_t_given_s, d.any_t_given_s),
     null_count |-> c.null_count + d.null_count,
     word_count |-> c.word_count + d.word_count,
     fertility |-> SumFn(c.fertility, d.fertility),
     fertility_for_any_phi |-> SumFn(c.fertility_for_any_phi, d.fertility_for_any_phi),
     head_distortion |-> SumFn(c.head_distortion, d.head_distortion),
     head_distortion_for_any_dj |->
         SumFn(c.head_distortion_for_any_dj, d.head_distortion_for_any_dj),
     non_head_distortion |-> SumFn(c.non_head_distortion, d.non_head_distortion),
     non_head_distortion_for_any_dj |->
         SumFn(c.non_head_distortion_for_any_dj, d.non_head_distortion_for_any_dj),
     raised |-> c.raised \/ d.raised]

\* the E step of lines 303-324 for the candidate set S, accumulating into c
Accumulate(c, S) ==
    collect_counts(c, S, prob_of_alignments(S, ibm_model), ibm_model)

\* a pass is about to start on a corpus of two sentence pairs
PassStarts == pc = "estep" /\ k = 1 /\ Len(corpus) = 2

\* the candidate sets of the two sentence pairs for which no update raises
CandidateSets ==
    {S \in SampleSets(corpus[1]) \X SampleSets(corpus[2]) :
        /\ \A a \in S[1] \cup S[2] : prob_t_a_given_s(a, ibm_model) # KeyError
        /\ ~Accumulate(Model4Counts, S[1]).raised
        /\ ~Accumulate(Model4Counts, S[2]).raised}

\* C23: the counts of a pass are the same whether the sentence pairs are
\* processed in corpus order, in the reverse order, or each into a private
\* accumulator with the accumulators summed element-wise; the tables,
\* computed from the counts alone, are then the same too
C23_OrderIndependent ==
    PassStarts =>
        \A S \in CandidateSets :
            LET sequential == Accumulate(Accumulate(Model4Counts, S[1]), S[2])
                reversed == Accumulate(Accumulate(Model4Counts, S[2]), S[1])
                merged == Merge(Accumulate(Model4Counts, S[1]),
                                Accumulate(Model4Counts, S[2]))
            IN  /\ sequential = reversed
                /\ sequential = merged
                /\ merged = Merge(Accumulate(Model4Counts, S[2]),
                                  Accumulate(Model4Counts, S[1]))

\* the second pass starts, and the two sentence pairs have candidate sets
\* that count under common keys, so that the order of the additions could
\* matter
C23_Witness ==
    /\ PassStarts
    /\ n = 1
    /\ \E S \in CandidateSets :
         LET c == Accumulate(Model4Counts, S[1])
             d == Accumulate(Model4Counts, S[2])
         IN  /\ Cardinality(S[1]) = 2
             /\ DOMAIN c.t_given_s \cap DOMAIN d.t_given_s # {}
             /\ DOMAIN c.head_distortion_for_any_dj
                  \cap DOMAIN d.head_distortion_for_any_dj # {}

\* ================================================================
\* The count updates of one sentence pair, one call at a time (lines
\* 307-324), on a fresh Model4Counts.  The variable scorer holds the frame
\* of the loop: the candidate at hand, its normalized count, the target
\* position, and the number of candidates counted so far.
MaxCalls == 2

\* user-defined distortion tables in which every key has a value of its own,
\* so that the value the scorer reads names the key it looked up
ProbeHead(key) == 1000 + 100 * (key[1] + MaxDj) + 10 * (key[2] + 1) + key[3]
ProbeNonHead(key) == 5000 + 100 * key[1] + key[2]
ProbeTables ==
    [ExplicitSharp EXCEPT
       !.head_distortion_table =
           [e |-> [key \in DjRange \X ClassIds \X {0, 1} |-> ProbeHead(key)],
            d |-> EmptyFn],
       !.non_head_distortion_table =
           [e |-> [key \in (1..MaxDj) \X {0, 1} |-> ProbeNonHead(key)],
            d |-> EmptyFn]]

\* the normalized counts the candidates are counted with
NormalizedCounts == {Scale \div 4, Scale \div 2}

CountedSentences == {PairXYX, PairXY}

\* line 307: the next sampled alignment, with its normalized count (line 309)
Candidate(alignment_info, normalized_count, calls) ==
    [at |-> "lexical", alignment_info |-> alignment_info,
     normalized_count |-> normalized_count, j |-> 1, calls |-> calls]

NotCounting ==
    UNCHANGED <<pc, corpus, iterations, src_classes, trg_classes, probability_tables,
                self, n, k, err, seeded, ibm3_invoked, sampled, distance>>

\* line 312
CountLexical ==
    /\ scorer.at = "lexical"
    /\ counts' = update_lexical_translation(counts, scorer.normalized_count,
                                            scorer.alignment_info, scorer.j)
    /\ scorer' = [scorer EXCEPT !.at = "distortion"]
    /\ NotCounting

\* lines 313-319, and the end of the loop over j
CountDistortion ==
    /\ scorer.at = "distortion"
    /\ LET c == update_distortion(counts, scorer.normalized_count, scorer.alignment_info,
                                  scorer.j, src_classes, trg_classes)
       IN  /\ counts' = c
           /\ scorer' = IF c.raised THEN [scorer EXCEPT !.at = "raised"]
                        ELSE IF scorer.j = TrgLen(scorer.alignment_info)
                        THEN [scorer EXCEPT !.at = "null"]
                        ELSE [scorer EXCEPT !.at = "lexical", !.j = scorer.j + 1]
    /\ NotCounting

\* line 322
CountNull ==
    /\ scorer.at = "null"
    /\ counts' = update_null_generation(counts, scorer.normalized_count,
                                        scorer.alignment_info)
    /\ scorer' = [scorer EXCEPT !.at = "fertility"]
    /\ NotCounting

\* line 323
CountFertility ==
    /\ scorer.at = "fertility"
    /\ counts' = update_fertility(counts, scorer.normalized_count, scorer.alignment_info)
    /\ scorer' = [scorer EXCEPT !.at = "next"]
    /\ NotCounting

\* line 307: the loop goes on to the next sampled alignment
NextCandidate ==
    /\ scorer.at = "next"
    /\ scorer.calls < MaxCalls
    /\ \E a \in AlignmentInfos(corpus[k]) : \E normalized_count \in NormalizedCounts :
         scorer' = Candidate(a, normalized_count, scorer.calls + 1)
    /\ UNCHANGED counts
    /\ NotCounting

\* the first pass of train on user-defined tables has reached the loop over
\* the sampled alignments of its sentence pair, with fresh counts
CountInit ==
    /\ pc = "estep"
    /\ err = "none"
    /\ k = 1
    /\ n = 0
    /\ iterations = 1
    /\ counts = Model4Counts
    /\ probability_tables = [given |-> TRUE, dict |-> ProbeTables]
    /\ self = ProbeTables
    /\ ibm3_invoked = FALSE
    /\ sampled = <<NoAlignment>>
    /\ \E sent \in CountedSentences :
         /\ corpus = <<sent>>
         /\ seeded = Snapshot(ProbeTables, <<sent>>)
         /\ \E a \in AlignmentInfos(sent) : \E normalized_count \in NormalizedCounts :
              scorer = Candidate(a, normalized_count, 1)
    /\ distance = NoCall
    /\ \E cm \in ScoredClassMaps :
         /\ src_classes = cm[1]
         /\ trg_classes = cm[2]

CountNext ==
    CountLexical \/ CountDistortion \/ CountNull \/ CountFertility \/ NextCandidate

CountSpec == CountInit /\ [][CountNext]_vars

\* ------------------------------------------------------------------ C24
\* the step taken is the update_distortion call for position scorer.j
DistortionCounted == scorer.at = "distortion" /\ scorer'.at # "distortion"

HeadCountsUnchanged ==
    /\ counts'.head_distortion = counts.head_distortion
    /\ counts'.head_distortion_for_any_dj = counts.head_distortion_for_any_dj

NonHeadCountsUnchanged ==
    /\ counts'.non_head_distortion = counts.non_head_distortion
    /\ counts'.non_head_distortion_for_any_dj = counts.non_head_distortion_for_any_dj

OtherCountsUnchanged ==
    /\ counts'.t_given_s = counts.t_given_s
    /\ counts'.any_t_given_s = counts.any_t_given_s
    /\ counts'.null_count = counts.null_count
    /\ counts'.word_count = counts.word_count
    /\ counts'.fertility = counts.fertility
    /\ counts'.fertility_for_any_phi = counts.fertility_for_any_phi

\* C24: for a position aligned to NULL the distortion factor is 1.0 and
\* update_distortion changes none of the four distortion counts; for a head
\* word it changes head_distortion and head_distortion_for_any_dj and
\* nothing else, for a non-head word non_head_distortion and
\* non_head_distortion_for_any_dj and nothing else
C24_DistortionFrame ==
    [][DistortionCounted =>
         LET a == scorer.alignment_info
             j == scorer.j
         IN  /\ OtherCountsUnchanged
             /\ a.alignment[j] = 0 =>
                  /\ distortion_term(a, ibm_model, j) = Scale
                  /\ counts' = counts
             /\ (a.alignment[j] # 0 /\ counts'.raised) =>
                  HeadCountsUnchanged /\ NonHeadCountsUnchanged
             /\ (a.alignment[j] # 0 /\ ~counts'.raised /\ is_head_word(a, j)) =>
                  /\ counts'.head_distortion # counts.head_distortion
                  /\ counts'.head_distortion_for_any_dj # counts.head_distortion_for_any_dj
                  /\ NonHeadCountsUnchanged
             /\ (a.alignment[j] # 0 /\ ~counts'.raised /\ ~is_head_word(a, j)) =>
                  /\ counts'.non_head_distortion # counts.non_head_distortion
                  /\ counts'.non_head_distortion_for_any_dj
                       # counts.non_head_distortion_for_any_dj
                  /\ HeadCountsUnchanged]_vars

\* the positions of a candidate with a head word, a non-head word and a
\* word aligned to NULL have been counted
C24_Witness ==
    /\ scorer.at = "null"
    /\ scorer.calls = 1
    /\ \E j \in 1..TrgLen(scorer.alignment_info) : scorer.alignment_info.alignment[j] = 0
    /\ Mass(counts.head_distortion_for_any_dj) = scorer.normalized_count
    /\ Mass(counts.non_head_distortion_for_any_dj) = scorer.normalized_count

\* ------------------------------------------------------------------ C25
\* the values the user-defined non-head table holds under dj >= 1
PositiveNonHeadValues == {ProbeNonHead(key) : key \in (1..MaxDj) \X {0, 1}}

\* the position at hand is a non-head word whose classes exist
NonHeadAtHand ==
    /\ scorer.at = "distortion"
    /\ scorer.alignment_info.alignment[scorer.j] # 0
    /\ ~is_head_word(scorer.alignment_info, scorer.j)
    /\ distortion_term(scorer.alignment_info, ibm_model, scorer.j) # KeyError

\* C25: the displacement of a non-head word is at least 1: the scorer's
\* lookup in non_head_distortion_table reads an entry with dj >= 1, and every
\* key counted in non_head_distortion has dj >= 1
C25_NonHeadDjPositive ==
    /\ NonHeadAtHand =>
         /\ NonHeadDj(scorer.alignment_info, scorer.j) >= 1
         /\ distortion_term(scorer.alignment_info, ibm_model, scorer.j)
              \in PositiveNonHeadValues
    /\ \A key \in DOMAIN counts.non_head_distortion : key[1] >= 1

\* non-head words next to their predecessor and one position further have
\* been counted
C25_Witness ==
    /\ \E key \in DOMAIN counts.non_head_distortion : key[1] = 1
    /\ \E key \in DOMAIN counts.non_head_distortion : key[1] = 2
    /\ NonHeadAtHand

\* ------------------------------------------------------------------ C26
\* the keys of the numerator counts that belong to one context
HeadKeysOf(context) ==
    {key \in DOMAIN counts.head_distortion : <<key[2], key[3]>> = context}
NonHeadKeysOf(context) ==
    {key \in DOMAIN counts.non_head_distortion : <<key[2]>> = context}

\* the unclamped estimates count / total of the keys of one context, summed
RECURSIVE SumOfEstimates(_, _, _)
SumOfEstimates(num, keys, total) ==
    IF keys = {} THEN 0
    ELSE LET key == CHOOSE x \in keys : TRUE
         IN  FDiv(num[key], total) + SumOfEstimates(num, keys \ {key}, total)

\* C26: every total head_distortion_for_any_dj[s][t] is the sum over dj of
\* head_distortion[dj][s][t] and every total non_head_distortion_for_any_dj[t]
\* the sum over dj of non_head_distortion[dj][t], every counted key has its
\* total, and so the unclamped estimates of one context sum to 1 (less the
\* rounding of one unit per key)
C26_TotalsAreSums ==
    /\ \A key \in DOMAIN counts.head_distortion :
         <<key[2], key[3]>> \in DOMAIN counts.head_distortion_for_any_dj
    /\ \A key \in DOMAIN counts.non_head_distortion :
         <<key[2]>> \in DOMAIN counts.non_head_distortion_for_any_dj
    /\ \A context \in DOMAIN counts.head_distortion_for_any_dj :
         LET total == counts.head_distortion_for_any_dj[context]
             estimates == SumOfEstimates(counts.head_distortion, HeadKeysOf(context), total)
         IN  /\ total = SumOf(counts.head_distortion, HeadKeysOf(context))
             /\ estimates <= Scale
             /\ estimates >= Scale - Cardinality(HeadKeysOf(context))
    /\ \A context \in DOMAIN counts.non_head_distortion_for_any_dj :
         LET total == counts.non_head_distortion_for_any_dj[context]
             estimates == SumOfEstimates(counts.non_head_distortion,
                                         NonHeadKeysOf(context), total)
         IN  /\ total = SumOf(counts.non_head_distortion, NonHeadKeysOf(context))
             /\ estimates <= Scale
             /\ estimates >= Scale - Cardinality(NonHeadKeysOf(context))

\* two candidates have been counted, and a head context and a non-head
\* context each hold counts under two displacements
C26_Witness ==
    /\ scorer.at = "next"
    /\ scorer.calls = 2
    /\ \E context \in DOMAIN counts.head_distortion_for_any_dj :
         Cardinality(HeadKeysOf(context)) >= 2
    /\ \E context \in DOMAIN counts.non_head_distortion_for_any_dj :
         Cardinality(NonHeadKeysOf(context)) >= 2

\* ------------------------------------------------------------------ C27
\* the keys whose count the step changed
Incremented(before, after) ==
    {key \in DOMAIN after : key \notin DOMAIN before \/ after[key] # before[key]}

\* the values of the user-defined tables: the value read tells the table
\* and the key of the lookup
HeadValues == {ProbeHead(key) : key \in DOMAIN ProbeTables.head_distortion_table.e}
NonHeadValues == {ProbeNonHead(key) : key \in DOMAIN ProbeTables.non_head_distortion_table.e}

\* C27: for every position, distortion_term and update_distortion take the
\* same case and the same key: the scorer returns 1.0 exactly when nothing is
\* counted, reads head_distortion_table exactly when head_distortion is
\* incremented, and then under the very key it read, reads
\* non_head_distortion_table exactly when non_head_distortion is incremented,
\* under the key it read, and raises KeyError exactly when the update does
C27_ScoringAgreesWithCounting ==
    [][DistortionCounted =>
         LET d == distortion_term(scorer.alignment_info, ibm_model, scorer.j)
             head_keys == Incremented(counts.head_distortion, counts'.head_distortion)
             non_head_keys ==
                 Incremented(counts.non_head_distortion, counts'.non_head_distortion)
         IN  /\ (d = KeyError) <=> counts'.raised
             /\ (d = Scale) <=> (counts' = counts)
             /\ (d \in HeadValues) <=> (head_keys # {})
             /\ (d \in NonHeadValues) <=> (non_head_keys # {})
             /\ d \in HeadValues \cup NonHeadValues \cup {Scale, KeyError}
             /\ \A key \in head_keys :
                  /\ head_keys = {key}
                  /\ non_head_keys = {}
                  /\ key \in DOMAIN self.head_distortion_table.e
                  /\ d = Lookup(self.head_distortion_table, key)
                  /\ Incremented(counts.head_distortion_for_any_dj,
                                 counts'.head_distortion_for_any_dj) = {<<key[2], key[3]>>}
             /\ \A key \in non_head_keys :
                  /\ non_head_keys = {key}
                  /\ head_keys = {}
                  /\ key \in DOMAIN self.non_head_distortion_table.e
                  /\ d = Lookup(self.non_head_distortion_table, key)
                  /\ Incremented(counts.non_head_distortion_for_any_dj,
                                 counts'.non_head_distortion_for_any_dj) = {<<key[2]>>}]_vars

\* a word aligned to NULL, a head word that follows another cept and a
\* non-head word have been counted, under tables whose values are all
\* different
C27_Witness ==
    /\ scorer.at = "fertility"
    /\ HeadValues \cap NonHeadValues = {}
    /\ Cardinality(HeadValues) = Cardinality(DOMAIN self.head_distortion_table.e)
    /\ Cardinality(NonHeadValues) = Cardinality(DOMAIN self.non_head_distortion_table.e)
    /\ \E key \in DOMAIN counts.head_distortion : key[2] # None
    /\ counts.non_head_distortion # EmptyFn
    /\ counts.null_count > 0

\* ------------------------------------------------------------------ C28
\* the candidate sets of the sentence pair at hand whose scoring does not
\* raise
ScoredSampleSets ==
    {S \in SUBSET ScoredCandidates :
        /\ Cardinality(S) >= 1
        /\ Cardinality(S) <= MaxSamples
        /\ \A c \in S : c.count # KeyError}

\* C28: no division of a training pass has a zero divisor: every candidate
\* scores at least MIN_PROB, so the total of line 304 is positive for every
\* non-empty candidate set, and every key of head_distortion and of
\* non_head_distortion, over which Maximization iterates, has a positive
\* total
C28_NoDivisionByZero ==
    /\ pc = "estep" =>
         \A S \in ScoredSampleSets :
             /\ \A c \in S : c.count >= MIN_PROB
             /\ TotalCount(S) >= MIN_PROB * Cardinality(S)
             /\ TotalCount(S) > 0
    /\ \A key \in DOMAIN counts.head_distortion :
         /\ <<key[2], key[3]>> \in DOMAIN counts.head_distortion_for_any_dj
         /\ counts.head_distortion_for_any_dj[<<key[2], key[3]>>] > 0
    /\ \A key \in DOMAIN counts.non_head_distortion :
         /\ <<key[2]>> \in DOMAIN counts.non_head_distortion_for_any_dj
         /\ counts.non_head_distortion_for_any_dj[<<key[2]>>] > 0

\* Maximization is about to divide the head and non-head counts of a pass
\* in which a candidate scored no more than MIN_PROB
C28_Witness ==
    /\ pc = "mstep"
    /\ counts.head_distortion # EmptyFn
    /\ counts.non_head_distortion # EmptyFn
    /\ \E a \in AlignmentInfos(corpus[1]) : prob_t_a_given_s(a, ibm_model) = MIN_PROB

\* ------------------------------------------------------------------ C29
\* C29: the M step replaces the distortion tables wholesale: after it the
\* assigned keys are exactly the keys counted in the pass, no inner default
\* is left, and every key without a count reads MIN_PROB, whatever it read
\* during the pass
C29_ReplacedWholesale ==
    [][pc = "mstep" =>
         /\ DOMAIN self'.head_distortion_table.e = DOMAIN counts.head_distortion
         /\ DOMAIN self'.non_head_distortion_table.e = DOMAIN counts.non_head_distortion
         /\ self'.head_distortion_table.d = EmptyFn
         /\ self'.non_head_distortion_table.d = EmptyFn
         /\ \A key \in HeadKeys \ DOMAIN counts.head_distortion :
              Lookup(self'.head_distortion_table, key) = MIN_PROB
         /\ \A key \in NonHeadKeys \ DOMAIN counts.non_head_distortion :
              Lookup(self'.non_head_distortion_table, key) = MIN_PROB]_vars

\* the second pass is about to be maximized, and a head and a non-head key
\* that hold estimates of the first pass above MIN_PROB received no count
C29_Witness ==
    /\ pc = "mstep"
    /\ n = 1
    /\ \E key \in HeadKeys \ DOMAIN counts.head_distortion :
         Lookup(self.head_distortion_table, key) > MIN_PROB
    /\ \E key \in NonHeadKeys \ DOMAIN counts.non_head_distortion :
         Lookup(self.non_head_distortion_table, key) > MIN_PROB

\* ================================================================
\* nltk/metrics/distance.py: edit_distance and levenshtein_distance.
\* A Python list or string is a sequence; the Python index p is the
\* sequence index p + 1.
MaxLen == 3
Alphabet == {"a", "b"}
IndexError == -3

Min(a, b) == IF a <= b THEN a ELSE b

\* the strings of at most MaxLen characters
Strings == UNION {[1..len -> Alphabet] : len \in 0..MaxLen}

\* list(range(stop))
Range0(stop) == [p \in 1..stop |-> p - 1]

\* list[1:stop]
Slice1(list, stop) == SubSeq(list, 2, Min(stop, Len(list)))

\* _edit_dist_init: row 0 and column 0 count up, the rest is 0
edit_dist_init(len1, len2) ==
    [i \in 0..(len1 - 1) |->
        [j \in 0..(len2 - 1) |-> IF i = 0 THEN j ELSE IF j = 0 THEN i ELSE 0]]

\* _edit_dist_step
edit_dist_step(lev, i, j, s1, s2, substitution_cost, transpositions) ==
    LET c1 == s1[i]
        c2 == s2[j]
        a == lev[i - 1][j] + 1
        b == lev[i][j - 1] + 1
        c == lev[i - 1][j - 1] + (IF c1 # c2 THEN substitution_cost ELSE 0)
        d == IF transpositions /\ i > 1 /\ j > 1 /\ s1[i - 1] = c2 /\ s2[j - 1] = c1
             THEN lev[i - 2][j - 2] + 1
             ELSE c + 1
    IN  [lev EXCEPT ![i][j] = Min(Min(a, b), Min(c, d))]

\* the two loops of edit_distance, from the Python indices i and j on
RECURSIVE edit_dist_loop(_, _, _, _, _, _, _)
edit_dist_loop(lev, i, j, s1, s2, substitution_cost, transpositions) ==
    IF i >= Len(s1) THEN lev
    ELSE IF j >= Len(s2)
    THEN edit_dist_loop(lev, i + 1, 0, s1, s2, substitution_cost, transpositions)
    ELSE edit_dist_loop(
             edit_dist_step(lev, i + 1, j + 1, s1, s2, substitution_cost, transpositions),
             i, j + 1, s1, s2, substitution_cost, transpositions)

edit_distance(s1, s2, substitution_cost, transpositions) ==
    LET len1 == Len(s1)
        len2 == Len(s2)
        lev == edit_dist_loop(edit_dist_init(len1 + 1, len2 + 1), 0, 0, s1, s2,
                              substitution_cost, transpositions)
    IN  lev[len1][len2]

\* ---- levenshtein_distance, one step of its code at a time
\* outer and inner hold what the two for loops have yet to iterate over
LevCall(s1, s2) ==
    [at |-> "enter", s1 |-> s1, s2 |-> s2, v1 |-> <<>>, v2 |-> <<>>,
     outer |-> <<>>, inner |-> <<>>, j |-> None, result |-> None]

LevFrame ==
    UNCHANGED <<pc, corpus, iterations, src_classes, trg_classes, probability_tables,
                self, counts, n, k, err, seeded, ibm3_invoked, sampled, scorer>>

\* lines 387-396: the lengths, the early return, the two vectors, and the
\* list v1[1:n1] the outer loop iterates over
LevEnter ==
    /\ distance.at = "enter"
    /\ LET n1 == Len(distance.s1)
           n2 == Len(distance.s2)
           mx == Max(n1, n2)
       IN  distance' =
             IF Min(n1, n2) = 0
             THEN [distance EXCEPT !.at = "returned", !.result = mx]
             ELSE [distance EXCEPT !.at = "outer",
                                   !.v1 = Range0(mx + 1),
                                   !.v2 = Range0(mx + 1),
                                   !.outer = Slice1(Range0(mx + 1), n1)]
    /\ LevFrame

\* line 396: the next j, or the end of the outer loop; line 397: the list
\* v2[1:n2] the inner loop iterates over, taken from v2 as it is now
LevOuter ==
    /\ distance.at = "outer"
    /\ distance' =
         IF distance.outer = <<>> THEN [distance EXCEPT !.at = "pop"]
         ELSE [distance EXCEPT !.at = "inner",
                               !.j = Head(distance.outer),
                               !.outer = Tail(distance.outer),
                               !.inner = Slice1(distance.v2, Len(distance.s2))]
    /\ LevFrame

\* lines 397-403: the next i, the comparison s1[i] == s2[j] and the write of
\* v2[j], or the end of the inner loop
LevInner ==
    /\ distance.at = "inner"
    /\ distance' =
         IF distance.inner = <<>> THEN [distance EXCEPT !.at = "outer"]
         ELSE LET i == Head(distance.inner)
                  j == distance.j
                  v1 == distance.v1
                  v2 == distance.v2
              IN  IF i >= Len(distance.s1) \/ j >= Len(distance.s2)
                  THEN [distance EXCEPT !.at = "raised", !.result = IndexError]
                  ELSE LET cost == IF distance.s1[i + 1] = distance.s2[j + 1] THEN 0 ELSE 1
                       IN  [distance EXCEPT
                              !.inner = Tail(distance.inner),
                              !.v2 = [v2 EXCEPT ![j + 1] =
                                        Min(Min(v2[j] + 1, v1[j + 1] + 1), v1[j] + cost)]]
    /\ LevFrame

\* line 406: return v2.pop()
LevReturn ==
    /\ distance.at = "pop"
    /\ distance' = [distance EXCEPT !.at = "returned",
                                    !.result = distance.v2[Len(distance.v2)],
                                    !.v2 = SubSeq(distance.v2, 1, Len(distance.v2) - 1)]
    /\ LevFrame

\* no model is under construction; levenshtein_distance is called on any
\* two strings
LevInit ==
    /\ pc = "new"
    /\ corpus = CorpusShort
    /\ iterations = 0
    /\ src_classes = FullSrcClasses
    /\ trg_classes = FullTrgClasses
    /\ probability_tables = [given |-> FALSE, dict |-> EmptyFn]
    /\ self = reset_probabilities(EmptyFn)
    /\ counts = Model4Counts
    /\ n = 0
    /\ k = 1
    /\ err = "none"
    /\ seeded = Snapshot(self, corpus)
    /\ ibm3_invoked = FALSE
    /\ sampled = [i \in 1..Len(corpus) |-> NoAlignment]
    /\ scorer = NoCall
    /\ \E s1 \in Strings : \E s2 \in Strings : distance = LevCall(s1, s2)

LevNext == LevEnter \/ LevOuter \/ LevInner \/ LevReturn

LevSpec == LevInit /\ [][LevNext]_vars

\* ------------------------------------------------------------------ C30
\* the call has returned a value
LevReturned == distance.at = "returned"

\* C30: levenshtein_distance(s1, s2) returns edit_distance(s1, s2) with
\* default arguments, the least number of single-character insertions,
\* deletions and substitutions that turn s1 into s2: it raises no error,
\* returns 0 for equal strings, and the same value for (s2, s1)
C30_LevenshteinIsEditDistance ==
    /\ distance.at # "raised"
    /\ LevReturned =>
         /\ distance.result = edit_distance(distance.s1, distance.s2, 1, FALSE)
         /\ distance.result = edit_distance(distance.s2, distance.s1, 1, FALSE)
         /\ distance.s1 = distance.s2 => distance.result = 0

====
